---------------------------- MODULE Spec2Model ----------------------------
(***************************************************************************)
(* A model of the OTT multiband compressor engine: ott_main.c,             *)
(* ott_processing.c (with ott_plugin.h), ott_compression.c, the biquad     *)
(* filter file and the parameter file (OTT_SetParameter and friends).      *)
(*                                                                         *)
(* Numbers.  The C code computes in IEEE float and double.  TLC has only   *)
(* 32-bit integers, so a number is modelled as a decimal floating-point    *)
(* value <<m, e>> standing for m * 10^e, kept to four significant digits   *)
(* (rounded), with the three special values NaN, +Inf and -Inf.  A         *)
(* result whose magnitude passes the format's range becomes an infinity    *)
(* (10^38 for float, 10^308 for double), one below it becomes zero.        *)
(***************************************************************************)
EXTENDS Integers, Sequences, FiniteSets, TLC

\* A C array as a function: every element is computed once, when the array
\* is built.
Array(f) == f @@ <<>>

\* A C function's local variables are written as nested one-element sets,
\*     CHOOSE it \in {e : x \in {v}} : TRUE
\* standing for "x = v; e": v is computed once, before e.  The statements of
\* a function therefore read from the last line of its definition upwards.
\* Consecutive statements none of which reads what another assigns share one
\* set, {e : x \in {v}, y \in {w}}, listed in the order of the source; this
\* keeps the nesting of a long function shallow.
\* A parameter written p_ is passed by value the same way: the definition
\* starts (on its last line) with p \in {p_}.

\* ------------------------------------------------------------------------
\* Decimal floating point
\* ------------------------------------------------------------------------

Zero == <<0, 0>>
NaN == <<0, 1000>>
PosInf == <<1, 1000>>
NegInf == <<-1, 1000>>

IsNaN(x) == x = NaN
IsInf(x_) ==
    (CHOOSE it \in {
            x = PosInf \/ x = NegInf
      : x \in {x_}} : TRUE)
IsFinite(x_) ==
    (CHOOSE it \in {
               ~IsNaN(x) /\ ~IsInf(x)
      : x \in {x_}} : TRUE)

Abs(n_) ==
    (CHOOSE it \in {
          IF n < 0 THEN -n ELSE n
      : n \in {n_}} : TRUE)
Sgn(n_) ==
    (CHOOSE it \in {
          IF n < 0 THEN -1 ELSE IF n > 0 THEN 1 ELSE 0
      : n \in {n_}} : TRUE)
\* Integer division truncating toward zero, as a C conversion does.
TDiv(n_, d) ==
    (CHOOSE it \in {
              Sgn(n) * (Abs(n) \div d)
      : n \in {n_}} : TRUE)

PowersOfTen ==
    <<10, 100, 1000, 10000, 100000, 1000000, 10000000, 100000000, 1000000000>>
Pow10(k_) ==
    (CHOOSE it \in {
            IF k <= 0 THEN 1 ELSE PowersOfTen[k]
      : k \in {k_}} : TRUE)

\* The number of decimal digits of n.
Digits(n) ==
    (CHOOSE it \in {
        IF a < 10 THEN 1 ELSE IF a < 100 THEN 2 ELSE IF a < 1000 THEN 3
        ELSE IF a < 10000 THEN 4 ELSE IF a < 100000 THEN 5
        ELSE IF a < 1000000 THEN 6 ELSE IF a < 10000000 THEN 7
        ELSE IF a < 100000000 THEN 8 ELSE IF a < 1000000000 THEN 9 ELSE 10
      : a \in {Abs(n)}} : TRUE)

\* The canonical form of m * 10^e: at most four digits (rounded to
\* nearest, halves away from zero), no trailing zero.
Norm(m_, e) ==
    (CHOOSE it \in {
    IF m = 0 THEN Zero
    ELSE (CHOOSE it \in {(CHOOSE it \in {(CHOOSE it \in {
                         <<r \div Pow10(z), e + k + z>>
           : z \in {
              IF r % 10000 = 0 THEN 4 ELSE IF r % 1000 = 0 THEN 3
              ELSE IF r % 100 = 0 THEN 2 ELSE IF r % 10 = 0 THEN 1 ELSE 0}} : TRUE)
           : r \in {
              IF k > 0
              THEN Sgn(m) * ((Abs(m) + 5 * Pow10(k - 1)) \div Pow10(k))
              ELSE m}} : TRUE)
           : k \in {IF Digits(m) > 4 THEN Digits(m) - 4 ELSE 0}} : TRUE)
      : m \in {m_}} : TRUE)

\* The decimal exponent of the leading digit of a finite non-zero value.
Lead(x_) ==
    (CHOOSE it \in {
           x[2] + Digits(x[1]) - 1
      : x \in {x_}} : TRUE)

\* Range of a format whose largest value is about 10^hi and smallest 10^lo.
Range(x_, hi, lo) ==
    (CHOOSE it \in {
    IF ~IsFinite(x) \/ x = Zero THEN x
    ELSE IF Lead(x) > hi THEN (IF x[1] > 0 THEN PosInf ELSE NegInf)
    ELSE IF Lead(x) < lo THEN Zero
    ELSE x
      : x \in {x_}} : TRUE)

\* float: FLT_MAX = 3.4e38, smallest denormal 1.4e-45.
F32(x) == Range(x, 38, -45)
\* double: DBL_MAX = 1.8e308, smallest denormal 4.9e-324.
F64(x) == Range(x, 308, -324)

\* A decimal literal: Dec(m, e) is m * 10^e.
Dec(m, e) == Norm(m, e)
One == Dec(1, 0)

Neg(x_) ==
    (CHOOSE it \in {
          IF IsNaN(x) THEN NaN ELSE <<-x[1], x[2]>>
      : x \in {x_}} : TRUE)

\* The sum of two finite values, hi the one with the larger exponent: the
\* mantissas are aligned (within 9 decimal digits, which 32-bit integers
\* hold) and the sum rounded; an operand too small to align is below the
\* other's last digit and is absorbed.
AddAligned(hi_, lo_) ==
    (CHOOSE it \in {(CHOOSE it \in {
        IF Digits(hi[1]) + d > 9 THEN hi
        ELSE Norm(hi[1] * Pow10(d) + lo[1], lo[2])
      : d \in {hi[2] - lo[2]}} : TRUE)
      : hi \in {hi_},
        lo \in {lo_}} : TRUE)

AddFin(x_, y_) ==
    (CHOOSE it \in {
    IF x = Zero THEN y
    ELSE IF y = Zero THEN x
    ELSE IF x[2] >= y[2] THEN AddAligned(x, y) ELSE AddAligned(y, x)
      : x \in {x_},
        y \in {y_}} : TRUE)

RAdd(x_, y_) ==
    (CHOOSE it \in {
    IF IsNaN(x) \/ IsNaN(y) THEN NaN
    ELSE IF IsInf(x) THEN (IF IsInf(y) /\ y # x THEN NaN ELSE x)
    ELSE IF IsInf(y) THEN y
    ELSE AddFin(x, y)
      : x \in {x_},
        y \in {y_}} : TRUE)

RMul(x_, y_) ==
    (CHOOSE it \in {
    IF IsNaN(x) \/ IsNaN(y) THEN NaN
    ELSE IF IsInf(x) \/ IsInf(y)
         THEN (IF x = Zero \/ y = Zero THEN NaN
               ELSE IF Sgn(x[1]) * Sgn(y[1]) > 0 THEN PosInf ELSE NegInf)
    ELSE Norm(x[1] * y[1], x[2] + y[2])
      : x \in {x_},
        y \in {y_}} : TRUE)

RDiv(x_, y_) ==
    (CHOOSE it \in {
    IF IsNaN(x) \/ IsNaN(y) THEN NaN
    ELSE IF IsInf(x)
         THEN (IF IsInf(y) THEN NaN
               ELSE IF Sgn(x[1]) * (IF y[1] < 0 THEN -1 ELSE 1) > 0
                    THEN PosInf ELSE NegInf)
    ELSE IF IsInf(y) THEN Zero
    ELSE IF y = Zero
         THEN (IF x = Zero THEN NaN ELSE IF x[1] > 0 THEN PosInf ELSE NegInf)
    ELSE (CHOOSE it \in {
             Norm(TDiv(x[1] * Pow10(k), Abs(y[1])) * Sgn(y[1]), x[2] - y[2] - k)
           : k \in {9 - Digits(x[1])}} : TRUE)
      : x \in {x_},
        y \in {y_}} : TRUE)

\* -1, 0 or 1 as x is below, equal to or above y; neither operand is NaN.
Cmp(x_, y_) ==
    (CHOOSE it \in {
    IF x = y THEN 0
    ELSE IF x = PosInf \/ y = NegInf THEN 1
    ELSE IF x = NegInf \/ y = PosInf THEN -1
    ELSE Sgn(AddFin(x, Neg(y))[1])
      : x \in {x_},
        y \in {y_}} : TRUE)

\* C comparisons: false as soon as an operand is NaN.
Lt(x_, y_) ==
    (CHOOSE it \in {
            ~IsNaN(x) /\ ~IsNaN(y) /\ Cmp(x, y) < 0
      : x \in {x_},
        y \in {y_}} : TRUE)
Le(x_, y_) ==
    (CHOOSE it \in {
            ~IsNaN(x) /\ ~IsNaN(y) /\ Cmp(x, y) <= 0
      : x \in {x_},
        y \in {y_}} : TRUE)
Ge(x, y) == Le(y, x)
Gt(x, y) == Lt(y, x)

\* float and double arithmetic
FAdd(x, y) == F32(RAdd(x, y))
FSub(x, y) == F32(RAdd(x, Neg(y)))
FMul(x, y) == F32(RMul(x, y))
FDiv(x, y) == F32(RDiv(x, y))
DAdd(x, y) == F64(RAdd(x, y))
DSub(x, y) == F64(RAdd(x, Neg(y)))
DMul(x, y) == F64(RMul(x, y))
DDiv(x, y) == F64(RDiv(x, y))

\* fmax, fmin, fmaxf, fminf: a NaN operand yields the other operand.
Fmax(x_, y_) ==
    (CHOOSE it \in {
              IF IsNaN(x) THEN y ELSE IF IsNaN(y) THEN x
              ELSE IF Lt(x, y) THEN y ELSE x
      : x \in {x_},
        y \in {y_}} : TRUE)
Fmin(x_, y_) ==
    (CHOOSE it \in {
              IF IsNaN(x) THEN y ELSE IF IsNaN(y) THEN x
              ELSE IF Lt(y, x) THEN y ELSE x
      : x \in {x_},
        y \in {y_}} : TRUE)

\* 1000 * 10^(j/100) for j = 0..100
Pow10Table ==
    <<1000, 1023, 1047, 1072, 1096, 1122, 1148, 1175, 1202, 1230, 1259, 1288,
      1318, 1349, 1380, 1413, 1445, 1479, 1514, 1549, 1585, 1622, 1660, 1698,
      1738, 1778, 1820, 1862, 1905, 1950, 1995, 2042, 2089, 2138, 2188, 2239,
      2291, 2344, 2399, 2455, 2512, 2570, 2630, 2692, 2754, 2818, 2884, 2951,
      3020, 3090, 3162, 3236, 3311, 3388, 3467, 3548, 3631, 3715, 3802, 3890,
      3981, 4074, 4169, 4266, 4365, 4467, 4571, 4677, 4786, 4898, 5012, 5129,
      5248, 5370, 5495, 5623, 5754, 5888, 6026, 6166, 6310, 6457, 6607, 6761,
      6918, 7079, 7244, 7413, 7586, 7762, 7943, 8128, 8318, 8511, 8710, 8913,
      9120, 9333, 9550, 9772, 10000>>

\* 10000 * ln(d/10) for d = 10..100
LnTable ==
    <<0, 953, 1823, 2624, 3365, 4055, 4700, 5306, 5878, 6419, 6931, 7419,
      7885, 8329, 8755, 9163, 9555, 9933, 10296, 10647, 10986, 11314, 11632,
      11939, 12238, 12528, 12809, 13083, 13350, 13610, 13863, 14110, 14351,
      14586, 14816, 15041, 15261, 15476, 15686, 15892, 16094, 16292, 16487,
      16677, 16864, 17047, 17228, 17405, 17579, 17750, 17918, 18083, 18245,
      18405, 18563, 18718, 18871, 19021, 19169, 19315, 19459, 19601, 19741,
      19879, 20015, 20149, 20281, 20412, 20541, 20669, 20794, 20919, 21041,
      21163, 21282, 21401, 21518, 21633, 21748, 21861, 21972, 22083, 22192,
      22300, 22407, 22513, 22618, 22721, 22824, 22925, 23026>>

\* A finite value of magnitude below 1000 as an integer count of hundredths.
Hundredths(x_) ==
    (CHOOSE it \in {
    IF x[2] + 2 >= 0 THEN x[1] * Pow10(x[2] + 2)
    ELSE IF -(x[2] + 2) > 4 THEN 0
    ELSE TDiv(x[1], Pow10(-(x[2] + 2)))
      : x \in {x_}} : TRUE)

\* exp() in double: overflows to +Inf above 709.78, underflows to 0 below -745.
DExp(x_) ==
    (CHOOSE it \in {
    IF IsNaN(x) THEN NaN
    ELSE IF x = PosInf THEN PosInf
    ELSE IF x = NegInf THEN Zero
    ELSE IF Ge(x, Dec(710, 0)) THEN PosInf
    ELSE IF Le(x, Dec(-746, 0)) THEN Zero
    ELSE IF Lt(x, Dec(1, -1)) /\ Gt(x, Dec(-1, -1))
         THEN \* 1 + x + x^2/2 + x^3/6
              (CHOOSE it \in {(CHOOSE it \in {
                  F64(RAdd(RAdd(RAdd(One, x), RDiv(x2, Dec(2, 0))),
                           RDiv(x3, Dec(6, 0))))
                : x3 \in {RMul(x2, x)}} : TRUE)
                : x2 \in {RMul(x, x)}} : TRUE)
    ELSE \* 10^(x * log10(e)), the fraction looked up and interpolated
         (CHOOSE it \in {(CHOOSE it \in {(CHOOSE it \in {(CHOOSE it \in {
         (CHOOSE it \in {
             F64(Norm(lo + ((hi - lo) * r) \div 10000, k - 3))
           : lo \in {Pow10Table[j + 1]},
             hi \in {Pow10Table[j + 2]}} : TRUE)
           : j \in {f \div 10000},
             r \in {f % 10000}} : TRUE)
           : f \in {y - k * 1000000}} : TRUE)
           : k \in {y \div 1000000}} : TRUE)
           : y \in {Hundredths(x) * 4343}} : TRUE)
      : x \in {x_}} : TRUE)

\* log() in double: log(0) = -Inf, log of a negative value is NaN.
DLog(x_) ==
    (CHOOSE it \in {
    IF IsNaN(x) THEN NaN
    ELSE IF x = PosInf THEN PosInf
    ELSE IF x = Zero THEN NegInf
    ELSE IF x[1] < 0 THEN NaN
    ELSE (CHOOSE it \in {(CHOOSE it \in {(CHOOSE it \in {(CHOOSE it \in {
             F64(Norm(lo + ((hi - lo) * r) \div 100 + ex * 23026, -4))
           : lo \in {LnTable[j - 9]},
             hi \in {LnTable[j - 8]}} : TRUE)
           : j \in {d \div 100},
             r \in {d % 100}} : TRUE)
           : d \in {x[1] * Pow10(s)},
             ex \in {x[2] - s + 3}} : TRUE)
           : s \in {4 - Digits(x[1])}} : TRUE)
      : x \in {x_}} : TRUE)

\* The integer square root of n < 46656^2, found in two steps of radix 216:
\* first the multiple of 216 below the root, then the root itself.
Isqrt(n_) ==
    (CHOOSE it \in {(CHOOSE it \in {
        CHOOSE r \in (216 * h)..(216 * h + 215) :
            r * r <= n /\ n < (r + 1) * (r + 1)
      : h \in {CHOOSE k \in 0..215 :
                   (216 * k) * (216 * k) <= n
                   /\ n < (216 * (k + 1)) * (216 * (k + 1))}} : TRUE)
      : n \in {n_}} : TRUE)

\* sqrt() in double: sqrt of a negative value is NaN.
DSqrt(x_) ==
    (CHOOSE it \in {
    IF IsNaN(x) THEN NaN
    ELSE IF x = PosInf THEN PosInf
    ELSE IF x = Zero THEN Zero
    ELSE IF x[1] < 0 THEN NaN
    ELSE (CHOOSE it \in {(CHOOSE it \in {(CHOOSE it \in {
             F64(Norm(Isqrt(m * 10000), (e - 4) \div 2))
           : m \in {IF odd THEN x[1] * Pow10(s + 1) ELSE x[1] * Pow10(s)},
             e \in {IF odd THEN x[2] - s - 1 ELSE x[2] - s}} : TRUE)
           : odd \in {(x[2] - s) % 2 # 0}} : TRUE)
           : s \in {4 - Digits(x[1])}} : TRUE)
      : x \in {x_}} : TRUE)

\* tanf() of a small angle: x + x^3/3 + 2x^5/15.
FTan(x_) ==
    (CHOOSE it \in {(CHOOSE it \in {(CHOOSE it \in {(CHOOSE it \in {
        F32(RAdd(RAdd(x, RDiv(x3, Dec(3, 0))),
                 RDiv(RMul(Dec(2, 0), x5), Dec(15, 0))))
      : x5 \in {RMul(x3, x2)}} : TRUE)
      : x3 \in {RMul(x2, x)}} : TRUE)
      : x2 \in {RMul(x, x)}} : TRUE)
      : x \in {x_}} : TRUE)

\* ------------------------------------------------------------------------
\* ott_plugin.h: constants
\* ------------------------------------------------------------------------

ENVELOPE_DECAY_RATE == Dec(25, -6)
COMPRESSION_SCALING == Dec(52, -2)
UPWARD_MULT_1 == Dec(2273, -3)
UPWARD_MULT_2 == Dec(9275, -4)
NOISE_FLOOR == Dec(1, -25)

\* The buffer length, 0x8000 in the header; the model runs the same code on
\* buffers of this (smaller) length.
DELAY_BUFFER_SIZE == 4

\* The "compression algorithm constants" are integer literals in the header
\* (the bit patterns of doubles written as hexadecimal integers), so every
\* use converts the 64-bit integer to double: each is about 4.6e18.
LOG_SCALE_FACTOR == Dec(4621, 15)
UNITY_GAIN == Dec(4607, 15)
MIN_GAIN_THRESHOLD == Dec(4576, 15)
MAX_COMPRESSION_RATIO == Dec(4630, 15)
NEGATIVE_THRESHOLD == Dec(-4575, 15)
ENVELOPE_TIME_CONSTANT == Dec(4592, 15)

\* ------------------------------------------------------------------------
\* Biquad filter
\* ------------------------------------------------------------------------

\* A BiquadFilter after memset(0).
ZeroBiquad ==
    [b0 |-> Zero, b1 |-> Zero, state1 |-> Zero, state2 |-> Zero,
     coeff_a1 |-> Zero, coeff_a2 |-> Zero, coeff_b2 |-> Zero,
     input_store |-> Zero, intermediate |-> Zero, output |-> Zero,
     processed_input |-> Zero]

InitializeBiquadFilter(filter) ==
    [filter EXCEPT !.state1 = Zero, !.state2 = Zero, !.input_store = Zero,
                   !.intermediate = Zero, !.output = Zero,
                   !.processed_input = Zero,
                   !.b0 = One, !.b1 = Zero, !.coeff_a1 = Zero,
                   !.coeff_a2 = Zero, !.coeff_b2 = Zero]

\* The filter after one sample; the C function returns the new .output.
ProcessBiquadFilter(filter_, input_) ==
    (CHOOSE it \in {(CHOOSE it \in {(CHOOSE it \in {(CHOOSE it \in {
    (CHOOSE it \in {
        [filter EXCEPT !.input_store = input,
                       !.processed_input = processed_input,
                       !.intermediate = intermediate,
                       !.output = output,
                       !.state1 = FSub(FAdd(intermediate, intermediate), w_n_minus_1),
                       !.state2 = FSub(FAdd(output, output), w_n_minus_2)]
      : intermediate \in {FAdd(temp1, temp2)},
        output \in {
                  FAdd(FAdd(FMul(w_n_minus_1, filter.coeff_a2), w_n_minus_2),
                       feedback_term)}} : TRUE)
      : temp2 \in {FMul(processed_input, filter.coeff_a2)},
        feedback_term \in {FMul(processed_input, filter.coeff_b2)}} : TRUE)
      : temp1 \in {FMul(w_n_minus_1, filter.coeff_a1)},
        processed_input \in {FSub(input, w_n_minus_2)}} : TRUE)
      : w_n_minus_2 \in {filter.state2},
        w_n_minus_1 \in {filter.state1}} : TRUE)
      : filter \in {filter_},
        input \in {input_}} : TRUE)

GetBiquadLowpass(filter) == filter.output

GetBiquadHighpass(filter_) ==
    (CHOOSE it \in {
    FSub(FSub(filter.input_store, FMul(filter.intermediate, filter.b1)),
         filter.output)
      : filter \in {filter_}} : TRUE)

M_PI == Dec(3142, -3)

CalculateBiquadCoefficients(filter, frequency, sampleRate) ==
    (CHOOSE it \in {(CHOOSE it \in {(CHOOSE it \in {(CHOOSE it \in {
    (CHOOSE it \in {
        [filter EXCEPT !.coeff_a1 = reciprocal,
                       !.coeff_a2 = a2,
                       !.coeff_b2 = FMul(a2, tan_half_freq),
                       !.b0 = One,
                       !.b1 = denominator]
      : a2 \in {FMul(denominator, tan_half_freq)}} : TRUE)
      : denominator \in {FDiv(One, FAdd(FMul(FAdd(reciprocal, tan_half_freq), tan_half_freq), One))}} : TRUE)
      : reciprocal \in {FDiv(One, tan_half_freq)}} : TRUE)
      : tan_half_freq \in {FTan(F32(normalizedFreq))}} : TRUE)
      : normalizedFreq \in {DDiv(DMul(frequency, M_PI), sampleRate)}} : TRUE)

\* The six crossover filters after SetupOTTCrossoverFilters.
SetupOTTCrossoverFilters(filters, sampleRate) ==
    (CHOOSE it \in {
        Array([i \in 0..5 |->
            CalculateBiquadCoefficients(
                InitializeBiquadFilter(filters[i]),
                IF i \in {0, 1} THEN lowMidCrossover ELSE midHighCrossover,
                sampleRate)])
      : lowMidCrossover \in {Dec(200, 0)},
        midHighCrossover \in {Dec(2000, 0)}} : TRUE)

\* ------------------------------------------------------------------------
\* Compressor
\* ------------------------------------------------------------------------

\* A CompressorState after memset(0).
ZeroCompressor ==
    [rms_smoother |-> Zero, rms_smoothing_coeff |-> Zero, log_envelope |-> Zero,
     threshold |-> Zero, ratio_state |-> Zero, gain_reduction |-> Zero,
     attack_coeff |-> Zero, release_coeff |-> Zero, release_time |-> Zero,
     upward_ratio |-> Zero, envelope_output |-> Zero,
     processed_envelope |-> Zero, linear_coeff |-> Zero, knee_coeff |-> Zero]

\* A variant that leaves the RMS smoother as it is.
InitializeCompressorKeepRms(comp) ==
    [comp EXCEPT !.log_envelope = Zero, !.gain_reduction = Zero,
                 !.envelope_output = One, !.processed_envelope = One]

InitializeCompressor(comp) ==
    [comp EXCEPT !.rms_smoother = Zero,
                 !.rms_smoothing_coeff = Dec(1, -1),
                 !.log_envelope = Zero,
                 !.threshold = Dec(-20, 0),
                 !.ratio_state = Zero,
                 !.gain_reduction = Zero,
                 !.attack_coeff = Dec(1, -1),
                 !.release_coeff = Dec(1, -2),
                 !.release_time = One,
                 !.upward_ratio = Dec(2, 0),
                 !.envelope_output = One,
                 !.processed_envelope = One,
                 !.linear_coeff = One,
                 !.knee_coeff = Dec(5, -1)]

SetCompressorParameters(comp, threshold, ratio, attack_, release, upward_ratio) ==
    (CHOOSE it \in {
    [comp EXCEPT !.threshold = threshold,
                 !.ratio_state = ratio,
                 !.attack_coeff = attack,
                 !.release_coeff = release,
                 !.upward_ratio = upward_ratio,
                 !.rms_smoothing_coeff = Fmin(Dec(5, -1), DMul(attack, Dec(10, 0)))]
      : attack \in {attack_}} : TRUE)

SetCompressorTiming(comp, attack_ms, release_ms, sample_rate_) ==
    (CHOOSE it \in {(CHOOSE it \in {(CHOOSE it \in {
        [comp EXCEPT !.attack_coeff = attack_coeff,
                     !.release_coeff =
                         DSub(One, DExp(DDiv(Dec(-1, 0), release_samples))),
                     !.rms_smoothing_coeff = DMul(attack_coeff, Dec(5, -1))]
      : attack_coeff \in {DSub(One, DExp(DDiv(Dec(-1, 0), attack_samples)))}} : TRUE)
      : attack_samples \in {DDiv(DMul(attack_ms, sample_rate), Dec(1000, 0))},
        release_samples \in {DDiv(DMul(release_ms, sample_rate), Dec(1000, 0))}} : TRUE)
      : sample_rate \in {sample_rate_}} : TRUE)

\* The main path of ProcessCompressorBand (ratio_state <= NEGATIVE_THRESHOLD):
\* the compressor's new state and the gain it computed.
CompressorMainPath(comp_, envelope_sqrt, timeConstant_) ==
    (CHOOSE it \in {(CHOOSE it \in {(CHOOSE it \in {(CHOOSE it \in {
    (CHOOSE it \in {(CHOOSE it \in {(CHOOSE it \in {
        IF Le(compressed_level, threshold_value)
        THEN (CHOOSE it \in {(CHOOSE it \in {(CHOOSE it \in {
                 [comp |-> c1,
                  gain |-> IF Le(g, MIN_GAIN_THRESHOLD) THEN MIN_GAIN_THRESHOLD ELSE g]
               : g \in {DExp(upward_gain)}} : TRUE)
               : upward_gain \in {DMul(DMul(release_factor, compressed_level), timeConstant)}} : TRUE)
               : release_factor \in {DSub(comp.release_time, UNITY_GAIN)}} : TRUE)
        ELSE (CHOOSE it \in {(CHOOSE it \in {(CHOOSE it \in {(CHOOSE it \in {
             (CHOOSE it \in {
                 [comp |-> [c1 EXCEPT !.processed_envelope = DExp(downward_gain)],
                  gain |-> DExp(limited)]
               : limited \in {
                     IF Le(upward_factor, MAX_COMPRESSION_RATIO)
                     THEN DMul(upward_factor, timeConstant)
                     ELSE DMul(MAX_COMPRESSION_RATIO, timeConstant)}} : TRUE)
               : upward_factor \in {DMul(gain_multiplier, comp.upward_ratio)}} : TRUE)
               : gain_multiplier \in {DExp(downward_gain)}} : TRUE)
               : downward_gain \in {DMul(attack_factor, timeConstant)}} : TRUE)
               : attack_factor \in {DSub(compressed_level, threshold_value)}} : TRUE)
      : c1 \in {[comp EXCEPT !.gain_reduction = compressed_level]}} : TRUE)
      : compressed_level \in {DAdd(DMul(ratio_difference, compression_coeff), max_reduction)}} : TRUE)
      : ratio_difference \in {DSub(current_ratio, max_reduction)},
        compression_coeff \in {
            IF Le(max_reduction, current_ratio) THEN comp.release_coeff
            ELSE comp.attack_coeff}} : TRUE)
      : max_reduction \in {Fmax(Zero, over_threshold)},
        current_ratio \in {comp.gain_reduction}} : TRUE)
      : over_threshold \in {DSub(log_input, threshold_value)}} : TRUE)
      : threshold_value \in {comp.threshold},
        log_input \in {DMul(DLog(DAdd(envelope_sqrt, Dec(1, -30))), LOG_SCALE_FACTOR)}} : TRUE)
      : comp \in {comp_},
        timeConstant \in {timeConstant_}} : TRUE)

\* The alternative (linear/expander) path of ProcessCompressorBand.
CompressorLinearPath(comp_, envelope_exp, envelope_sqrt_, timeConstant_) ==
    (CHOOSE it \in {(CHOOSE it \in {(CHOOSE it \in {(CHOOSE it \in {
    (CHOOSE it \in {
        IF Le(threshold_diff, Zero)
        THEN (CHOOSE it \in {(CHOOSE it \in {(CHOOSE it \in {
                 [comp |-> [c1 EXCEPT !.processed_envelope = DExp(expansion_gain)],
                  gain |-> IF Le(g, MIN_GAIN_THRESHOLD) THEN MIN_GAIN_THRESHOLD ELSE g]
               : g \in {DExp(final_expansion)}} : TRUE)
               : final_expansion \in {DMul(DMul(release_gain, threshold_diff), timeConstant)}} : TRUE)
               : expansion_gain \in {DMul(threshold_diff, timeConstant)},
                 release_gain \in {DSub(comp.release_time, UNITY_GAIN)}} : TRUE)
        ELSE IF Le(threshold_diff, Neg(NEGATIVE_THRESHOLD))
             THEN [comp |-> c1, gain |-> DExp(DMul(threshold_diff, timeConstant))]
             ELSE [comp |-> c1, gain |-> MIN_GAIN_THRESHOLD]
      : c1 \in {[comp EXCEPT !.log_envelope = log_final]},
        threshold_diff \in {DSub(log_processed, comp.threshold)}} : TRUE)
      : log_final \in {DMul(DLog(DAdd(final_level, Dec(1, -30))), LOG_SCALE_FACTOR)}} : TRUE)
      : final_level \in {
            IF Ge(processed_input, min_processing_level) THEN processed_input
            ELSE min_processing_level},
        log_processed \in {DMul(DLog(DAdd(processed_input, Dec(1, -30))), LOG_SCALE_FACTOR)}} : TRUE)
      : processed_input \in {
            IF Le(envelope_sqrt, linear_threshold)
            THEN DMul(comp.knee_coeff, linear_threshold)
            ELSE DAdd(DMul(comp.linear_coeff, DSub(envelope_sqrt, linear_threshold)),
                      linear_threshold)},
        min_processing_level \in {Dec(1, -30)}} : TRUE)
      : comp \in {comp_},
        envelope_sqrt \in {envelope_sqrt_},
        timeConstant \in {timeConstant_},
        linear_threshold \in {envelope_exp}} : TRUE)

\* A ProcessCompressorBand that stores the computed gain in ratio_state
\* instead of envelope_output.
ProcessCompressorBandRatioWritten(comp_, inputPower_, outputLevel, bandGain, timeConstant_) ==
    (CHOOSE it \in {(CHOOSE it \in {(CHOOSE it \in {(CHOOSE it \in {
    (CHOOSE it \in {
        [comp |-> [r.comp EXCEPT !.ratio_state = r.gain],
         ret |-> DMul(DMul(r.gain, outputLevel), bandGain)]
      : r \in {
             IF Le(comp.ratio_state, NEGATIVE_THRESHOLD)
             THEN CompressorMainPath(c0, envelope_sqrt, timeConstant)
             ELSE CompressorLinearPath(c0, envelope_exp, envelope_sqrt, timeConstant)}} : TRUE)
      : envelope_sqrt \in {IF Lt(root, Zero) THEN Neg(root) ELSE root}} : TRUE)
      : c0 \in {[comp EXCEPT !.rms_smoother = rms]},
        envelope_exp \in {DExp(DMul(comp.log_envelope, timeConstant))},
        root \in {DSqrt(rms)}} : TRUE)
      : rms \in {
               DAdd(DMul(DSub(comp.rms_smoother, inputPower),
                         comp.rms_smoothing_coeff), inputPower)}} : TRUE)
      : comp \in {comp_},
        inputPower \in {inputPower_},
        timeConstant \in {timeConstant_}} : TRUE)

\* ProcessCompressorBand: [comp |-> the compressor afterwards, ret |-> the
\* value returned].
ProcessCompressorBand(comp_, inputPower_, outputLevel, bandGain, timeConstant_) ==
    (CHOOSE it \in {(CHOOSE it \in {(CHOOSE it \in {(CHOOSE it \in {
    (CHOOSE it \in {
        [comp |-> [r.comp EXCEPT !.envelope_output = r.gain],
         ret |-> DMul(DMul(r.gain, outputLevel), bandGain)]
      : r \in {
             IF Le(comp.ratio_state, NEGATIVE_THRESHOLD)
             THEN CompressorMainPath(c0, envelope_sqrt, timeConstant)
             ELSE CompressorLinearPath(c0, envelope_exp, envelope_sqrt, timeConstant)}} : TRUE)
      : envelope_sqrt \in {IF Lt(root, Zero) THEN Neg(root) ELSE root}} : TRUE)
      : c0 \in {[comp EXCEPT !.rms_smoother = rms]},
        envelope_exp \in {DExp(DMul(comp.log_envelope, timeConstant))},
        root \in {DSqrt(rms)}} : TRUE)
      : rms \in {
               DAdd(DMul(DSub(comp.rms_smoother, inputPower),
                         comp.rms_smoothing_coeff), inputPower)}} : TRUE)
      : comp \in {comp_},
        inputPower \in {inputPower_},
        timeConstant \in {timeConstant_}} : TRUE)

\* ------------------------------------------------------------------------
\* Parameters (the parameter file printed in README.md)
\* ------------------------------------------------------------------------

BoolF(b) == IF b THEN One ELSE Zero

\* OTT_PARAMETERS[index].defaultValue
OTT_GetParameterDefault(index_) ==
    (CHOOSE it \in {
    IF index >= 0 /\ index < 20
    THEN (IF index \in {4, 11, 12, 13, 14, 15, 16, 19} THEN Zero ELSE Dec(5, -1))
    ELSE Zero
      : index \in {index_}} : TRUE)

\* A variant with half the slope above the centre.
CalculateCompressionRatioHalfSlope(vstValue_) ==
    (CHOOSE it \in {
    IF Gt(vstValue, Dec(5, -1))
    THEN FAdd(FMul(FSub(vstValue, Dec(5, -1)), Dec(8, 0)), One)
    ELSE FMul(vstValue, Dec(2, 0))
      : vstValue \in {vstValue_}} : TRUE)

CalculateCompressionRatio(vstValue_) ==
    (CHOOSE it \in {
    IF Gt(vstValue, Dec(5, -1))
    THEN FAdd(FMul(FSub(vstValue, Dec(5, -1)), Dec(16, 0)), One)
    ELSE FMul(vstValue, Dec(2, 0))
      : vstValue \in {vstValue_}} : TRUE)

\* A variant that switches at the centre of the range.
ConvertBooleanParameterAtHalf(vstValue) == Gt(vstValue, Dec(5, -1))

ConvertBooleanParameter(vstValue) == vstValue # Zero

\* presetData is 0x1000 bytes, read and written as floats.  Only the cells
\* written since the memset are kept; the others read as zero.
PresetFloats == 4096 \div 4
\* The float index of presetData + presetSlot * 0x6c + 0x138, plus i floats.
PresetCell(presetSlot, i) == (presetSlot * 108 + 312) \div 4 + i
PresetRead(presetData_, cell_) ==
    (CHOOSE it \in {
    IF cell \in DOMAIN presetData THEN presetData[cell] ELSE Zero
      : presetData \in {presetData_},
        cell \in {cell_}} : TRUE)
PresetWrite(presetData_, cell_, value_) ==
    (CHOOSE it \in {
    IF cell \in DOMAIN presetData THEN [presetData EXCEPT ![cell] = value]
    ELSE presetData @@ (cell :> value)
      : presetData \in {presetData_},
        cell \in {cell_},
        value \in {value_}} : TRUE)

\* The store presetStorage[i] = value at the current preset slot.
StorePreset(p_, i, value) ==
    (CHOOSE it \in {
    [p EXCEPT !.presetData =
        PresetWrite(@, PresetCell(p.currentPresetSlot, i), value)]
      : p \in {p_}} : TRUE)

\* A variant without the range test, whose store to the preset cell comes
\* before the switch.
OTT_SetParameterNoRangeTest(p, parameterIndex, rawValue) ==
    StorePreset([p EXCEPT !.needsUpdate = TRUE], parameterIndex,
                Fmax(Zero, Fmin(One, rawValue)))

OTT_SetParameter(p_, parameterIndex_, rawValue) ==
    (CHOOSE it \in {
    IF parameterIndex < 0 \/ parameterIndex > 19 THEN p
    ELSE
    (CHOOSE it \in {(CHOOSE it \in {
        CASE parameterIndex = 0 ->
                [q EXCEPT !.depth = value, !.needsUpdate = TRUE]
          [] parameterIndex = 1 ->
                [q EXCEPT !.timeControl = value, !.needsUpdate = TRUE]
          [] parameterIndex = 2 ->
                [q EXCEPT !.upwardRatioRaw = value,
                          !.upwardRatio = CalculateCompressionRatio(value),
                          !.needsUpdate = TRUE]
          [] parameterIndex = 3 ->
                [q EXCEPT !.downwardRatioRaw = value,
                          !.downwardRatio = CalculateCompressionRatio(value),
                          !.needsUpdate = TRUE]
          [] parameterIndex = 4 ->
                [q EXCEPT !.advancedMode = ConvertBooleanParameter(value),
                          !.needsUpdate = TRUE]
          [] parameterIndex \in 5..7 ->
                [q EXCEPT !.bandControls[parameterIndex - 5] = value,
                          !.needsUpdate = TRUE]
          [] parameterIndex \in 8..10 ->
                (CHOOSE it \in {
                [q EXCEPT !.bandGains[gainIndex] = value,
                          !.bandGainsDoubled[gainIndex] = FMul(value, Dec(2, 0)),
                          !.needsUpdate = TRUE,
                          !.lowBandGain = IF gainIndex = 0 THEN value ELSE @,
                          !.midBandGain = IF gainIndex = 1 THEN value ELSE @,
                          !.highBandGain = IF gainIndex = 2 THEN value ELSE @]
                  : gainIndex \in {parameterIndex - 8}} : TRUE)
          [] parameterIndex \in 11..16 ->
                [q EXCEPT !.switches[parameterIndex - 11] =
                              ConvertBooleanParameter(value),
                          !.needsUpdate = TRUE]
          [] parameterIndex = 17 ->
                [q EXCEPT !.additionalControl1 = value, !.needsUpdate = TRUE]
          [] parameterIndex = 18 ->
                [q EXCEPT !.additionalControl2 = value, !.needsUpdate = TRUE]
          [] parameterIndex = 19 ->
                [q EXCEPT !.bypass = ConvertBooleanParameter(value)]
      : q \in {StorePreset(p, IF parameterIndex = 19 THEN 25 ELSE parameterIndex, value)}} : TRUE)
      : value \in {Fmax(Zero, Fmin(One, rawValue))}} : TRUE)
      : p \in {p_},
        parameterIndex \in {parameterIndex_}} : TRUE)

OTT_GetParameter(p_, parameterIndex_) ==
    (CHOOSE it \in {
    CASE parameterIndex = 0 -> p.depth
      [] parameterIndex = 1 -> p.timeControl
      [] parameterIndex = 2 -> p.upwardRatioRaw
      [] parameterIndex = 3 -> p.downwardRatioRaw
      [] parameterIndex = 4 -> BoolF(p.advancedMode)
      [] parameterIndex \in 5..7 -> p.bandControls[parameterIndex - 5]
      [] parameterIndex \in 8..10 -> p.bandGains[parameterIndex - 8]
      [] parameterIndex \in 11..16 -> BoolF(p.switches[parameterIndex - 11])
      [] parameterIndex = 17 -> p.additionalControl1
      [] parameterIndex = 18 -> p.additionalControl2
      [] parameterIndex = 19 -> BoolF(p.bypass)
      [] OTHER -> Zero
      : p \in {p_},
        parameterIndex \in {parameterIndex_}} : TRUE)

RECURSIVE SetDefaultsFrom(_, _, _)
\* The n iterations i, i + 1, ... of for (i = 0; i < 20; i++): one iteration
\* sets parameter i; a longer run is its first half followed by its second
\* half, which keeps the nesting of the evaluation logarithmic in n.
SetDefaultsFrom(p_, i_, n_) ==
    (CHOOSE it \in {
    IF n <= 0 THEN p
    ELSE IF n = 1 THEN OTT_SetParameter(p, i, OTT_GetParameterDefault(i))
    ELSE (CHOOSE it \in {
             SetDefaultsFrom(q, i + n \div 2, n - n \div 2)
           : q \in {SetDefaultsFrom(p, i, n \div 2)}} : TRUE)
      : p \in {p_},
        i \in {i_},
        n \in {n_}} : TRUE)

OTT_InitializeParametersToDefaults(p) == SetDefaultsFrom(p, 0, 20)

\* ------------------------------------------------------------------------
\* ott_main.c: initialization, reset, sample rate, presets
\* ------------------------------------------------------------------------

ZeroBuffer == Array([i \in 1..DELAY_BUFFER_SIZE |-> Zero])

\* An OTTPlugin after memset(0), its buffers not yet allocated.
ZeroPlugin ==
    [bypass |-> FALSE, advancedMode |-> FALSE, needsUpdate |-> FALSE,
     inputChannels |-> 0, outputChannels |-> 0,
     inputChannelIndex |-> 0, outputChannelIndex |-> 0,
     peakEnvelopeLeft |-> Zero, peakEnvelopeRight |-> Zero,
     depth |-> Zero, timeControl |-> Zero,
     upwardRatioRaw |-> Zero, upwardRatio |-> Zero,
     downwardRatioRaw |-> Zero, downwardRatio |-> Zero,
     currentGain |-> Zero, finalGain |-> Zero,
     bandControls |-> Array([i \in 0..2 |-> Zero]),
     bandGains |-> Array([i \in 0..2 |-> Zero]),
     bandGainsDoubled |-> Array([i \in 0..2 |-> Zero]),
     switches |-> Array([i \in 0..5 |-> FALSE]),
     additionalControl1 |-> Zero, additionalControl2 |-> Zero,
     depthSmoother |-> Array([i \in 0..1 |-> Zero]),
     upwardSmoother |-> Array([i \in 0..1 |-> Zero]),
     outputSmoother |-> Array([i \in 0..1 |-> Zero]),
     crossoverFilters |-> Array([i \in 0..5 |-> ZeroBiquad]),
     bandBuffers |-> Array([b \in 0..5 |-> ZeroBuffer]),
     delayBuffers |-> Array([b \in 0..7 |-> ZeroBuffer]),
     compressorLow |-> ZeroCompressor,
     compressorMid |-> ZeroCompressor,
     compressorHigh |-> ZeroCompressor,
     bufferIndex |-> 0, bufferOffset |-> 0, writeIndex |-> 0,
     lowBandGain |-> Zero, midBandGain |-> Zero, highBandGain |-> Zero,
     compressorStates |-> Array([i \in 0..11 |-> Zero]),
     currentPresetSlot |-> 0,
     presetData |-> <<>>]

OTT_Initialize(sampleRate) ==
    (CHOOSE it \in {(CHOOSE it \in {
        [p2 EXCEPT !.depth = Dec(5, -1),
                   !.timeControl = Dec(3, -1),
                   !.upwardRatio = Dec(6, -1),
                   !.downwardRatio = Dec(7, -1),
                   !.lowBandGain = Dec(5, -1),
                   !.midBandGain = Dec(5, -1),
                   !.highBandGain = Dec(5, -1),
                   !.bufferIndex = 0, !.bufferOffset = 0, !.writeIndex = 0,
                   !.compressorStates = Array([i \in 0..11 |-> Zero])]
      : p2 \in {OTT_InitializeParametersToDefaults(p1)}} : TRUE)
      : p1 \in {
              [ZeroPlugin EXCEPT
                  !.inputChannels = 2, !.outputChannels = 2,
                  !.inputChannelIndex = 0, !.outputChannelIndex = 0,
                  !.bypass = FALSE, !.advancedMode = FALSE, !.needsUpdate = TRUE,
                  !.peakEnvelopeLeft = Zero, !.peakEnvelopeRight = Zero,
                  !.bandBuffers = Array([b \in 0..5 |-> ZeroBuffer]),
                  !.delayBuffers = Array([b \in 0..7 |-> ZeroBuffer]),
                  !.crossoverFilters =
                      SetupOTTCrossoverFilters(
                          Array([i \in 0..5 |-> InitializeBiquadFilter(ZeroBiquad)]),
                          sampleRate),
                  !.compressorLow =
                      SetCompressorParameters(InitializeCompressor(ZeroCompressor),
                          Dec(-20, 0), Dec(2, 0), Dec(1, -1), Dec(1, -2), Dec(2, 0)),
                  !.compressorMid =
                      SetCompressorParameters(InitializeCompressor(ZeroCompressor),
                          Dec(-15, 0), Dec(3, 0), Dec(8, -2), Dec(15, -3), Dec(25, -1)),
                  !.compressorHigh =
                      SetCompressorParameters(InitializeCompressor(ZeroCompressor),
                          Dec(-10, 0), Dec(4, 0), Dec(5, -2), Dec(2, -2), Dec(3, 0)),
                  !.depthSmoother = Array([i \in 0..1 |-> IF i = 0 THEN Zero ELSE Dec(1, -2)]),
                  !.upwardSmoother = Array([i \in 0..1 |-> IF i = 0 THEN Zero ELSE Dec(1, -2)]),
                  !.outputSmoother = Array([i \in 0..1 |-> IF i = 0 THEN One ELSE Dec(5, -3)]),
                  !.currentPresetSlot = 0,
                  !.presetData = <<>>]}} : TRUE)

OTT_SetSampleRate(p, sampleRate_) ==
    (CHOOSE it \in {
    [p EXCEPT !.crossoverFilters = SetupOTTCrossoverFilters(@, sampleRate),
              !.compressorLow =
                  SetCompressorTiming(@, Dec(10, 0), Dec(100, 0), sampleRate),
              !.compressorMid =
                  SetCompressorTiming(@, Dec(8, 0), Dec(80, 0), sampleRate),
              !.compressorHigh =
                  SetCompressorTiming(@, Dec(5, 0), Dec(50, 0), sampleRate),
              !.needsUpdate = TRUE]
      : sampleRate \in {sampleRate_}} : TRUE)

\* A variant that restores the parameter defaults.
OTT_ResetToDefaults(p) == OTT_InitializeParametersToDefaults(p)

OTT_Reset(p) ==
    [p EXCEPT !.crossoverFilters = Array([i \in 0..5 |-> InitializeBiquadFilter(@[i])]),
              !.compressorLow = InitializeCompressor(@),
              !.compressorMid = InitializeCompressor(@),
              !.compressorHigh = InitializeCompressor(@),
              !.peakEnvelopeLeft = Zero,
              !.peakEnvelopeRight = Zero,
              !.bandBuffers = Array([b \in 0..5 |-> ZeroBuffer]),
              !.delayBuffers = Array([b \in 0..7 |-> ZeroBuffer]),
              !.bufferIndex = 0,
              !.writeIndex = 0,
              !.needsUpdate = TRUE]

RECURSIVE SavePresetFrom(_, _, _, _)
\* The n iterations i, i + 1, ... of for (i = 0; i < 20; i++), a run of
\* several iterations taken as its first half followed by its second half.
SavePresetFrom(p_, presetSlot_, i_, n_) ==
    (CHOOSE it \in {
    IF n <= 0 THEN p
    ELSE IF n = 1
    THEN [p EXCEPT !.presetData =
             PresetWrite(@, PresetCell(presetSlot, i), OTT_GetParameter(p, i))]
    ELSE (CHOOSE it \in {
             SavePresetFrom(q, presetSlot, i + n \div 2, n - n \div 2)
           : q \in {SavePresetFrom(p, presetSlot, i, n \div 2)}} : TRUE)
      : p \in {p_},
        presetSlot \in {presetSlot_},
        i \in {i_},
        n \in {n_}} : TRUE)

OTT_SavePreset(p_, presetSlot_) ==
    (CHOOSE it \in {
    IF presetSlot < 0 \/ presetSlot >= 32 THEN p
    ELSE [SavePresetFrom(p, presetSlot, 0, 20) EXCEPT !.currentPresetSlot = presetSlot]
      : p \in {p_},
        presetSlot \in {presetSlot_}} : TRUE)

RECURSIVE LoadPresetFrom(_, _, _, _)
\* The n iterations i, i + 1, ... of for (i = 0; i < 20; i++), a run of
\* several iterations taken as its first half followed by its second half.
LoadPresetFrom(p_, presetSlot_, i_, n_) ==
    (CHOOSE it \in {
    IF n <= 0 THEN p
    ELSE IF n = 1
    THEN OTT_SetParameter(p, i, PresetRead(p.presetData, PresetCell(presetSlot, i)))
    ELSE (CHOOSE it \in {
             LoadPresetFrom(q, presetSlot, i + n \div 2, n - n \div 2)
           : q \in {LoadPresetFrom(p, presetSlot, i, n \div 2)}} : TRUE)
      : p \in {p_},
        presetSlot \in {presetSlot_},
        i \in {i_},
        n \in {n_}} : TRUE)

OTT_LoadPreset(p_, presetSlot_) ==
    (CHOOSE it \in {
    IF presetSlot < 0 \/ presetSlot >= 32 THEN p
    ELSE [LoadPresetFrom(p, presetSlot, 0, 20) EXCEPT !.currentPresetSlot = presetSlot]
      : p \in {p_},
        presetSlot \in {presetSlot_}} : TRUE)

\* ------------------------------------------------------------------------
\* ott_processing.c: OTT_ProcessAudio
\* ------------------------------------------------------------------------

\* A channel buffer the host passes: a null pointer, or the samples s[1..]
\* (the C index i is s[i + 1]).
NullBuffer == [null |-> TRUE, s |-> <<>>]
Buffer(samples) == [null |-> FALSE, s |-> samples]
\* A C array element: a[i] of the sequence that models the array.
At(a, i) == a[i + 1]

\* An output cell the call has not written.
Unwritten == <<0, 2000>>

\* One sample of the peak envelope follower.
PeakDetect(envelope_, sample_) ==
    (CHOOSE it \in {
    IF Lt(sample, envelope)
    THEN (CHOOSE it \in {
             IF Lt(e, Zero) THEN Zero ELSE e
           : e \in {FSub(envelope, ENVELOPE_DECAY_RATE)}} : TRUE)
    ELSE sample
      : envelope \in {envelope_},
        sample \in {sample_}} : TRUE)

\* The envelopes <<left, right>> after sample sampleIdx of both channels.
PeakSample(env_, inputs_, rightChannelIdx, sampleIdx_) ==
    (CHOOSE it \in {
    <<PeakDetect(env[1], At(inputs[0].s, sampleIdx)),
      PeakDetect(env[2], At(inputs[rightChannelIdx].s, sampleIdx))>>
      : env \in {env_},
        inputs \in {inputs_},
        sampleIdx \in {sampleIdx_}} : TRUE)

RECURSIVE PeakSingleLoop(_, _, _, _, _)
\* do { ... sampleIdx++; } while (sampleIdx < numSamples)
PeakSingleLoop(env, inputs_, rightChannelIdx_, sampleIdx_, numSamples_) ==
    (CHOOSE it \in {(CHOOSE it \in {
            IF sampleIdx + 1 < numSamples
            THEN PeakSingleLoop(e, inputs, rightChannelIdx, sampleIdx + 1, numSamples)
            ELSE e
      : e \in {PeakSample(env, inputs, rightChannelIdx, sampleIdx)}} : TRUE)
      : inputs \in {inputs_},
        rightChannelIdx \in {rightChannelIdx_},
        sampleIdx \in {sampleIdx_},
        numSamples \in {numSamples_}} : TRUE)

RECURSIVE PeakRemainderLoop(_, _, _, _, _)
\* while (sampleIdx < numSamples) { ... sampleIdx++; }
PeakRemainderLoop(env_, inputs_, rightChannelIdx_, sampleIdx_, numSamples_) ==
    (CHOOSE it \in {
    IF sampleIdx < numSamples
    THEN (CHOOSE it \in {
                         PeakRemainderLoop(e, inputs, rightChannelIdx,
                                           sampleIdx + 1, numSamples)
           : e \in {PeakSample(env, inputs, rightChannelIdx, sampleIdx)}} : TRUE)
    ELSE env
      : env \in {env_},
        inputs \in {inputs_},
        rightChannelIdx \in {rightChannelIdx_},
        sampleIdx \in {sampleIdx_},
        numSamples \in {numSamples_}} : TRUE)

RECURSIVE PeakQuadLoop(_, _, _, _, _)
\* do { four samples; sampleIdx += 4; } while (sampleIdx < numSamples - 3),
\* then the remainder loop.
PeakQuadLoop(env, inputs_, rightChannelIdx_, sampleIdx_, numSamples_) ==
    (CHOOSE it \in {(CHOOSE it \in {(CHOOSE it \in {(CHOOSE it \in {
    (CHOOSE it \in {(CHOOSE it \in {
            IF sampleIdx + 4 < numSamples - 3
            THEN PeakQuadLoop(e, inputs, rightChannelIdx, sampleIdx + 4, numSamples)
            ELSE PeakRemainderLoop(e, inputs, rightChannelIdx, sampleIdx + 4,
                                   numSamples)
      : e \in {e4}} : TRUE)
      : e4 \in {PeakSample(e3, inputs, rightChannelIdx, sampleIdx + 3)}} : TRUE)
      : e3 \in {PeakSample(e2, inputs, rightChannelIdx, sampleIdx + 2)}} : TRUE)
      : e2 \in {PeakSample(e1, inputs, rightChannelIdx, sampleIdx + 1)}} : TRUE)
      : e1 \in {PeakSample(env, inputs, rightChannelIdx, sampleIdx)}} : TRUE)
      : inputs \in {inputs_},
        rightChannelIdx \in {rightChannelIdx_},
        sampleIdx \in {sampleIdx_},
        numSamples \in {numSamples_}} : TRUE)

\* The peak detection section: the plugin with its two envelopes updated.
PeakDetection(p_, inputs_, rightChannelIdx_, sampleCount_) ==
    (CHOOSE it \in {(CHOOSE it \in {(CHOOSE it \in {
        [p EXCEPT !.peakEnvelopeLeft = env[1], !.peakEnvelopeRight = env[2]]
      : env \in {
               IF sampleCount < 4
               THEN (IF sampleCount > 0
                     THEN PeakSingleLoop(env0, inputs, rightChannelIdx, 0, sampleCount)
                     ELSE env0)
               ELSE PeakQuadLoop(env0, inputs, rightChannelIdx, 0, sampleCount)}} : TRUE)
      : env0 \in {<<p.peakEnvelopeLeft, p.peakEnvelopeRight>>}} : TRUE)
      : p \in {p_},
        inputs \in {inputs_},
        rightChannelIdx \in {rightChannelIdx_},
        sampleCount \in {sampleCount_}} : TRUE)

\* value = (target - value) * coeff + value on a smoother [value, coeff].
Smooth(target, smoother_) ==
    (CHOOSE it \in {
    FAdd(FMul(FSub(target, smoother[0]), smoother[1]), smoother[0])
      : smoother \in {smoother_}} : TRUE)

\* The end of both filtering loops: the six band samples and the two input
\* samples go to the delay buffers at bufferIndex, which then advances.
StoreDelay(p_, inputs_, rightChannelIdx, sampleIdx_) ==
    (CHOOSE it \in {(CHOOSE it \in {
        [p EXCEPT
            !.delayBuffers =
                Array([band \in 0..7 |->
                    [@[band] EXCEPT ![bufferPos + 1] =
                        IF band < 6 THEN At(p.bandBuffers[band], sampleIdx)
                        ELSE IF band = 6 THEN At(inputs[0].s, sampleIdx)
                        ELSE At(inputs[rightChannelIdx].s, sampleIdx)]]),
            !.bufferIndex =
                IF bufferPos + 1 >= DELAY_BUFFER_SIZE THEN 0 ELSE bufferPos + 1]
      : bufferPos \in {p.bufferIndex}} : TRUE)
      : p \in {p_},
        inputs \in {inputs_},
        sampleIdx \in {sampleIdx_}} : TRUE)

\* One iteration of the simple-mode loop.
SimpleSample(p_, inputs_, rightChannelIdx_, sampleIdx_) ==
    (CHOOSE it \in {(CHOOSE it \in {(CHOOSE it \in {(CHOOSE it \in {
    (CHOOSE it \in {(CHOOSE it \in {
        StoreDelay(q, inputs, rightChannelIdx, sampleIdx)
      : q \in {
             [p EXCEPT
                !.depthSmoother[0] = smoothedDepth,
                !.upwardSmoother[0] = smoothedUpward,
                !.currentGain = smoothedUpward,
                !.crossoverFilters =
                    Array([i \in 0..5 |->
                        CASE i = 0 -> f0 [] i = 1 -> f1 [] i = 2 -> f2
                          [] i = 3 -> f3 [] i = 4 -> f4 [] i = 5 -> f5]),
                !.bandBuffers[0][sampleIdx + 1] =
                    FMul(GetBiquadLowpass(f2), processingGain),
                !.bandBuffers[1][sampleIdx + 1] =
                    FMul(GetBiquadLowpass(f3), processingGain),
                !.bandBuffers[4][sampleIdx + 1] =
                    FMul(GetBiquadHighpass(f4), processingGain),
                !.bandBuffers[5][sampleIdx + 1] =
                    FMul(GetBiquadHighpass(f5), processingGain)]}} : TRUE)
      : f2 \in {ProcessBiquadFilter(p.crossoverFilters[2], GetBiquadLowpass(f0))},
        f3 \in {ProcessBiquadFilter(p.crossoverFilters[3], GetBiquadLowpass(f1))},
        f4 \in {ProcessBiquadFilter(p.crossoverFilters[4], leftProcessingGain)},
        f5 \in {ProcessBiquadFilter(p.crossoverFilters[5], rightProcessingGain)}} : TRUE)
      : f0 \in {ProcessBiquadFilter(p.crossoverFilters[0], leftProcessingGain)},
        f1 \in {ProcessBiquadFilter(p.crossoverFilters[1], rightProcessingGain)}} : TRUE)
      : processingGain \in {FAdd(FMul(smoothedDepth, COMPRESSION_SCALING), One)},
        leftProcessingGain \in {FMul(smoothedUpward, At(inputs[0].s, sampleIdx))},
        rightProcessingGain \in {FMul(smoothedUpward, At(inputs[rightChannelIdx].s, sampleIdx))}} : TRUE)
      : smoothedDepth \in {Smooth(p.depth, p.depthSmoother)},
        smoothedUpward \in {Smooth(p.upwardRatio, p.upwardSmoother)}} : TRUE)
      : p \in {p_},
        inputs \in {inputs_},
        rightChannelIdx \in {rightChannelIdx_},
        sampleIdx \in {sampleIdx_}} : TRUE)

\* One iteration of the advanced-mode loop.
AdvancedSample(p_, inputs_, rightChannelIdx_, sampleIdx_) ==
    (CHOOSE it \in {(CHOOSE it \in {(CHOOSE it \in {(CHOOSE it \in {
    (CHOOSE it \in {
        StoreDelay(q, inputs, rightChannelIdx, sampleIdx)
      : q \in {
             [p EXCEPT
                !.depthSmoother[0] = smoothedDepth,
                !.upwardSmoother[0] = smoothedUpward,
                !.currentGain = smoothedUpward,
                !.crossoverFilters = f,
                !.bandBuffers =
                    Array([band \in 0..5 |->
                        [@[band] EXCEPT ![sampleIdx + 1] =
                            FMul(IF band < 2 THEN GetBiquadLowpass(f[band])
                                 ELSE GetBiquadHighpass(f[band]),
                                 processingGain)]])]}} : TRUE)
      : f \in {
             Array([filterIdx \in 0..5 |->
                ProcessBiquadFilter(p.crossoverFilters[filterIdx],
                    IF filterIdx % 2 = 0 THEN leftInput ELSE rightInput)])}} : TRUE)
      : processingGain \in {FAdd(FMul(smoothedDepth, COMPRESSION_SCALING), One)},
        upwardGain1 \in {FAdd(FMul(smoothedUpward, UPWARD_MULT_1), One)},
        upwardGain2 \in {FAdd(FMul(smoothedUpward, UPWARD_MULT_2), One)},
        leftInput \in {FMul(At(inputs[0].s, sampleIdx), smoothedUpward)},
        rightInput \in {FMul(At(inputs[rightChannelIdx].s, sampleIdx), smoothedUpward)}} : TRUE)
      : smoothedDepth \in {Smooth(p.depth, p.depthSmoother)},
        smoothedUpward \in {Smooth(p.upwardRatio, p.upwardSmoother)}} : TRUE)
      : p \in {p_},
        inputs \in {inputs_},
        rightChannelIdx \in {rightChannelIdx_},
        sampleIdx \in {sampleIdx_}} : TRUE)

RECURSIVE FilterLoop(_, _, _, _, _)
\* for (sampleIdx = 0; sampleIdx < numSamples; sampleIdx++) in the mode that
\* was tested before the loop.
FilterLoop(p_, inputs_, rightChannelIdx_, sampleIdx_, numSamples_) ==
    (CHOOSE it \in {
    IF sampleIdx >= numSamples THEN p
    ELSE (CHOOSE it \in {
                         FilterLoop(q, inputs, rightChannelIdx, sampleIdx + 1,
                                    numSamples)
           : q \in {
              IF ~p.advancedMode
              THEN SimpleSample(p, inputs, rightChannelIdx, sampleIdx)
              ELSE AdvancedSample(p, inputs, rightChannelIdx, sampleIdx)}} : TRUE)
      : p \in {p_},
        inputs \in {inputs_},
        rightChannelIdx \in {rightChannelIdx_},
        sampleIdx \in {sampleIdx_},
        numSamples \in {numSamples_}} : TRUE)

\* The per-band gain the engine works with: plugin->lowBandGain,
\* plugin->midBandGain and plugin->highBandGain.
EngineBandGain(p, band) ==
    IF band = 0 THEN p.lowBandGain
    ELSE IF band = 1 THEN p.midBandGain
    ELSE p.highBandGain

\* One iteration of the compression and output loop on st = [p, out].
CompressSample(st_, sampleIdx_) ==
    (CHOOSE it \in {(CHOOSE it \in {(CHOOSE it \in {(CHOOSE it \in {
    (CHOOSE it \in {(CHOOSE it \in {(CHOOSE it \in {(CHOOSE it \in {
    (CHOOSE it \in {
        [p |-> [p EXCEPT
                  !.outputSmoother[0] = smoothedOutput,
                  !.finalGain = smoothedOutput,
                  !.compressorLow = low.comp,
                  !.compressorMid = mid.comp,
                  !.compressorHigh = high.comp,
                  !.writeIndex =
                      IF readIndex + 1 >= DELAY_BUFFER_SIZE THEN 0 ELSE readIndex + 1],
         out |-> [out1 EXCEPT ![p.outputChannelIndex].s[sampleIdx + 1] = finalRight]]
      : out1 \in {[st.out EXCEPT ![0].s[sampleIdx + 1] = finalLeft]}} : TRUE)
      : finalLeft \in {
            FMul(FAdd(FAdd(FMul(lowLeft, lowGainReduction),
                           FMul(midLeft, midGainReduction)),
                      FMul(highLeft, highGainReduction)), smoothedOutput)},
        finalRight \in {
            FMul(FAdd(FAdd(FMul(lowRight, lowGainReduction),
                           FMul(midRight, midGainReduction)),
                      FMul(highRight, highGainReduction)), smoothedOutput)}} : TRUE)
      : lowGainReduction \in {F32(low.ret)},
        midGainReduction \in {F32(mid.ret)},
        highGainReduction \in {F32(high.ret)}} : TRUE)
      : low \in {
               ProcessCompressorBand(p.compressorLow, lowPower, smoothedOutput,
                                     EngineBandGain(p, 0), ENVELOPE_TIME_CONSTANT)},
        mid \in {
               ProcessCompressorBand(p.compressorMid, midPower, smoothedOutput,
                                     EngineBandGain(p, 1), ENVELOPE_TIME_CONSTANT)},
        high \in {
                ProcessCompressorBand(p.compressorHigh, highPower, smoothedOutput,
                                      EngineBandGain(p, 2), ENVELOPE_TIME_CONSTANT)}} : TRUE)
      : lowPower \in {
                    F32(DAdd(FAdd(FMul(lowLeft, lowLeft), FMul(lowRight, lowRight)),
                             NOISE_FLOOR))},
        midPower \in {
                    F32(DAdd(FAdd(FMul(midLeft, midLeft), FMul(midRight, midRight)),
                             NOISE_FLOOR))},
        highPower \in {
                     F32(DAdd(FAdd(FMul(highLeft, highLeft), FMul(highRight, highRight)),
                              NOISE_FLOOR))}} : TRUE)
      : lowLeft \in {At(p.delayBuffers[0], readIndex)},
        lowRight \in {At(p.delayBuffers[1], readIndex)},
        midLeft \in {At(p.delayBuffers[2], readIndex)},
        midRight \in {At(p.delayBuffers[3], readIndex)},
        highLeft \in {At(p.delayBuffers[4], readIndex)},
        highRight \in {At(p.delayBuffers[5], readIndex)}} : TRUE)
      : smoothedOutput \in {Smooth(p.finalGain, p.outputSmoother)},
        readIndex \in {p.writeIndex}} : TRUE)
      : p \in {st.p}} : TRUE)
      : st \in {st_},
        sampleIdx \in {sampleIdx_}} : TRUE)

RECURSIVE CompressLoop(_, _, _)
CompressLoop(st_, sampleIdx_, numSamples_) ==
    (CHOOSE it \in {
    IF sampleIdx >= numSamples THEN st
    ELSE (CHOOSE it \in {
                            CompressLoop(next, sampleIdx + 1, numSamples)
           : next \in {CompressSample(st, sampleIdx)}} : TRUE)
      : st \in {st_},
        sampleIdx \in {sampleIdx_},
        numSamples \in {numSamples_}} : TRUE)

\* A variant of the bypass branch that copies the first channel only.
BypassCopyLeft(inputs_, outputs_, sampleCount) ==
    (CHOOSE it \in {
    Array([ch \in 0..1 |->
        IF ch = 0 /\ ~inputs[ch].null /\ ~outputs[ch].null
        THEN [outputs[ch] EXCEPT !.s =
                Array([i \in 1..Len(@) |->
                    IF i <= sampleCount THEN inputs[ch].s[i] ELSE @[i]])]
        ELSE outputs[ch]])
      : inputs \in {inputs_},
        outputs \in {outputs_}} : TRUE)

\* The bypass branch: each channel with both buffers present is copied.
BypassCopy(inputs_, outputs_, sampleCount) ==
    (CHOOSE it \in {
    Array([ch \in 0..1 |->
        IF ~inputs[ch].null /\ ~outputs[ch].null
        THEN [outputs[ch] EXCEPT !.s =
                Array([i \in 1..Len(@) |->
                    IF i <= sampleCount THEN inputs[ch].s[i] ELSE @[i]])]
        ELSE outputs[ch]])
      : inputs \in {inputs_},
        outputs \in {outputs_}} : TRUE)

\* OTT_ProcessAudio below its bypass test: channel setup, peak detection,
\* the filtering loop of the mode, the compression and output loop and the
\* metering values.
ProcessActive(plugin0_, inputs_, outputs_, sampleCount_) ==
    (CHOOSE it \in {(CHOOSE it \in {(CHOOSE it \in {(CHOOSE it \in {
        IF sampleCount <= 0 THEN [p |-> p2, out |-> outputs]
        ELSE
        (CHOOSE it \in {(CHOOSE it \in {(CHOOSE it \in {(CHOOSE it \in {
        (CHOOSE it \in {
            [p |-> [p4 EXCEPT !.compressorStates =
                        Array([i \in 0..11 |->
                            CASE i = 0 -> FMul(F32(p4.compressorLow.envelope_output),
                                               EngineBandGain(p4, 0))
                              [] i = 1 -> FMul(F32(p4.compressorMid.envelope_output),
                                               EngineBandGain(p4, 1))
                              [] i = 2 -> FMul(F32(p4.compressorHigh.envelope_output),
                                               EngineBandGain(p4, 2))
                              [] i = 3 -> F32(p4.compressorLow.rms_smoother)
                              [] i = 4 -> F32(p4.compressorMid.rms_smoother)
                              [] i = 5 -> F32(p4.compressorHigh.rms_smoother)
                              [] OTHER -> @[i]])],
             out |-> st.out]
          : p4 \in {st.p}} : TRUE)
          : st \in {
                  CompressLoop([p |-> [p3 EXCEPT !.writeIndex = readPos],
                                out |-> outputs], 0, sampleCount)}} : TRUE)
          : readPos \in {
                       IF currentBufferPos - sampleCount < 0
                       THEN currentBufferPos - sampleCount + DELAY_BUFFER_SIZE
                       ELSE currentBufferPos - sampleCount}} : TRUE)
          : currentBufferPos \in {p3.bufferIndex}} : TRUE)
          : p3 \in {FilterLoop(p2, inputs, rightChannelIdx, 0, sampleCount)}} : TRUE)
      : p2 \in {PeakDetection(p1, inputs, rightChannelIdx, sampleCount)}} : TRUE)
      : rightChannelIdx \in {p1.inputChannelIndex}} : TRUE)
      : p1 \in {
              [plugin0 EXCEPT
                  !.inputChannelIndex =
                      IF plugin0.inputChannels = 2 /\ inputs[1].null THEN 0 ELSE @,
                  !.outputChannelIndex =
                      IF plugin0.outputChannels = 2 /\ outputs[1].null THEN 0 ELSE @]}} : TRUE)
      : plugin0 \in {plugin0_},
        inputs \in {inputs_},
        outputs \in {outputs_},
        sampleCount \in {sampleCount_}} : TRUE)

\* A variant that tests bypass only after the peak detection.
OTT_ProcessAudioPeakFirst(plugin0_, inputs_, outputs_, sampleCount_) ==
    (CHOOSE it \in {
    IF plugin0.bypass
    THEN [p |-> PeakDetection(plugin0, inputs, plugin0.inputChannelIndex,
                              sampleCount),
          out |-> BypassCopy(inputs, outputs, sampleCount)]
    ELSE ProcessActive(plugin0, inputs, outputs, sampleCount)
      : plugin0 \in {plugin0_},
        inputs \in {inputs_},
        outputs \in {outputs_},
        sampleCount \in {sampleCount_}} : TRUE)

\* OTT_ProcessAudio: [p |-> the plugin afterwards, out |-> the output buffers
\* afterwards].
OTT_ProcessAudio(plugin0_, inputs_, outputs_, sampleCount_) ==
    (CHOOSE it \in {
    IF plugin0.bypass
    THEN [p |-> plugin0, out |-> BypassCopy(inputs, outputs, sampleCount)]
    ELSE ProcessActive(plugin0, inputs, outputs, sampleCount)
      : plugin0 \in {plugin0_},
        inputs \in {inputs_},
        outputs \in {outputs_},
        sampleCount \in {sampleCount_}} : TRUE)

\* A variant whose validation does not test the first output buffer.
OTT_ProcessNoOutputTest(plugin0_, a_) ==
    (CHOOSE it \in {
    IF a.pluginNull \/ a.inputsNull \/ a.outputsNull \/ a.sampleCount <= 0
    THEN [p |-> plugin0, out |-> a.outputs]
    ELSE IF a.inputs[0].null
    THEN [p |-> plugin0, out |-> a.outputs]
    ELSE OTT_ProcessAudio(plugin0, a.inputs, a.outputs, a.sampleCount)
      : plugin0 \in {plugin0_},
        a \in {a_}} : TRUE)

\* The arguments of one OTT_Process call: which pointers are null, the two
\* input and the two output channel buffers, and the sample count.
\* OTT_Process: [p, out] after the call.
OTT_Process(plugin0_, args_) ==
    (CHOOSE it \in {
    IF args.pluginNull \/ args.inputsNull \/ args.outputsNull \/ args.sampleCount <= 0
    THEN [p |-> plugin0, out |-> args.outputs]
    ELSE IF args.inputs[0].null \/ args.outputs[0].null
    THEN [p |-> plugin0, out |-> args.outputs]
    ELSE OTT_ProcessAudio(plugin0, args.inputs, args.outputs, args.sampleCount)
      : plugin0 \in {plugin0_},
        args \in {args_}} : TRUE)

\* ------------------------------------------------------------------------
\* The host: one engine and the calls made on it
\* ------------------------------------------------------------------------

\* Calls per run of the engine specification.
MaxOps == 2
\* Longest block handed to OTT_Process.
MaxBlock == 2
\* setParameter/getParameter calls per run of the parameter specification.
MaxParamOps == 1

VARIABLES
    plugin,      \* the OTTPlugin
    sampleRate,  \* the rate the engine was last configured for
    sets,        \* the <<index, value>> pairs given to OTT_SetParameter so far
    call,        \* the last call: its name, parameter index, value and return
    args,        \* the arguments of the last OTT_Process call
    outputs,     \* the caller's output buffers after the last OTT_Process call
    ops,         \* calls made so far
    frame,       \* the OTT_ProcessAudio call in progress, statement by statement
    saved        \* what OTT_GetParameter returned when the host last saved a preset

vars == <<plugin, sampleRate, sets, call, args, outputs, ops, frame, saved>>

SampleRates == {Dec(441, 2), Dec(48, 3)}
\* The rate the host constructs the engine with.
InitialSampleRate == Dec(441, 2)

\* Test signals: sample i of channel ch.
Signals == {"silence", "tone"}
Sample(signal, ch, i) ==
    IF signal = "silence" THEN Zero
    ELSE IF (i + ch) % 2 = 0 THEN Dec(5, -1) ELSE Dec(-25, -2)
SignalBuffer(signal, ch, n) == Buffer(Array([i \in 1..n |-> Sample(signal, ch, i - 1)]))
BlankBuffer(n) == Buffer(Array([i \in 1..n |-> Unwritten]))

\* The arguments of a call that passes the validation of OTT_Process: n
\* samples, the second input and the second output buffer present or not.
CallArgs(signal, n, in1, out1) ==
    [pluginNull |-> FALSE, inputsNull |-> FALSE, outputsNull |-> FALSE,
     inputs |-> Array([ch \in 0..1 |->
                    IF ch = 1 /\ ~in1 THEN NullBuffer ELSE SignalBuffer(signal, ch, n)]),
     outputs |-> Array([ch \in 0..1 |->
                    IF ch = 1 /\ ~out1 THEN NullBuffer ELSE BlankBuffer(n)]),
     sampleCount |-> n]

\* Stereo calls of every signal and length, and the longest tone block with
\* each combination of absent second buffers.
ValidArgs ==
    {CallArgs(signal, n, TRUE, TRUE) : signal \in Signals, n \in 1..MaxBlock}
    \cup {CallArgs("tone", MaxBlock, in1, out1) : in1 \in BOOLEAN, out1 \in BOOLEAN}

\* Calls that OTT_Process must reject, one for each test of its validation.
InvalidArgs ==
    LET a == CallArgs("tone", MaxBlock, TRUE, TRUE)
    IN  {[a EXCEPT !.pluginNull = TRUE],
         [a EXCEPT !.inputsNull = TRUE],
         [a EXCEPT !.outputsNull = TRUE],
         [a EXCEPT !.sampleCount = 0],
         [a EXCEPT !.sampleCount = -1],
         [a EXCEPT !.inputs[0] = NullBuffer],
         [a EXCEPT !.outputs[0] = NullBuffer]}

\* What OTT_Process tests before it calls OTT_ProcessAudio.
Rejected(a) ==
    \/ a.pluginNull \/ a.inputsNull \/ a.outputsNull \/ a.sampleCount <= 0
    \/ a.inputs[0].null \/ a.outputs[0].null

NoArgs == [CallArgs("silence", 0, FALSE, FALSE) EXCEPT
              !.inputs[0] = NullBuffer, !.outputs[0] = NullBuffer]
NoCall == [op |-> "init", index |-> 0, value |-> Zero, ret |-> Zero]

\* No OTT_ProcessAudio call in progress.  pc is the statement the call is
\* at, sampleIdx and ch its loop counters, iters the iterations the current
\* loop has made, writes and reads the delay-buffer positions the filtering
\* and the compression loop of the call have touched, in order, written
\* the positions stored to since OTT_Initialize, entry the two mode flags
\* as they were when the call executed its first statement, and modes the
\* crossover loops ("simple", "advanced") that have filtered a sample of the
\* block.
IdleFrame ==
    [pc |-> "idle", sampleCount |-> 0, sampleIdx |-> 0, ch |-> 0,
     iters |-> [bypass0 |-> 0, bypass1 |-> 0, peak |-> 0, rest |-> 0,
               filter |-> 0, compress |-> 0],
     writes |-> <<>>, reads |-> <<>>, written |-> {},
     entry |-> [bypass |-> FALSE, advancedMode |-> FALSE],
     mode |-> "none", modes |-> {}]

Init ==
    /\ sampleRate = InitialSampleRate
    /\ plugin = OTT_Initialize(sampleRate)
    /\ sets = <<>>
    /\ call = NoCall
    /\ args = NoArgs
    /\ outputs = NoArgs.outputs
    /\ ops = 0
    /\ frame = IdleFrame
    /\ saved = [slot |-> -1, values |-> <<>>]

\* The host calls OTT_Process(plugin, inputs, outputs, sampleCount).
ProcessCall(a) ==
    /\ ops < MaxOps
    /\ \E r \in {OTT_Process(plugin, a)} :
           /\ plugin' = r.p
           /\ outputs' = r.out
    /\ args' = a
    /\ call' = [NoCall EXCEPT !.op = "process"]
    /\ ops' = ops + 1
    /\ UNCHANGED <<saved, sampleRate, sets, frame>>

Process == \E a \in ValidArgs : ProcessCall(a)

ProcessInvalid == \E a \in InvalidArgs : ProcessCall(a)

\* The host calls OTT_Reset(plugin).
ResetCall(bound) ==
    /\ ops < bound
    /\ plugin' = OTT_Reset(plugin)
    /\ call' = [NoCall EXCEPT !.op = "reset"]
    /\ args' = NoArgs
    /\ outputs' = NoArgs.outputs
    /\ ops' = ops + 1
    /\ UNCHANGED <<saved, sampleRate, sets, frame>>

Reset == ResetCall(MaxOps)

\* The host calls OTT_SetSampleRate(plugin, sr).
SetSampleRate ==
    \E sr \in SampleRates :
        /\ ops < MaxOps
        /\ plugin' = OTT_SetSampleRate(plugin, sr)
        /\ sampleRate' = sr
        /\ call' = [NoCall EXCEPT !.op = "setSampleRate", !.value = sr]
        /\ args' = NoArgs
        /\ outputs' = NoArgs.outputs
        /\ ops' = ops + 1
        /\ UNCHANGED <<saved, sets, frame>>

\* The host calls OTT_SetParameter(plugin, i, v).
SetParameterCall(i, v, bound) ==
    /\ ops < bound
    /\ plugin' = OTT_SetParameter(plugin, i, v)
    /\ sets' = Append(sets, <<i, v>>)
    /\ call' = [NoCall EXCEPT !.op = "set", !.index = i, !.value = v]
    /\ args' = NoArgs
    /\ outputs' = NoArgs.outputs
    /\ ops' = ops + 1
    /\ UNCHANGED <<saved, sampleRate, frame>>

\* The parameter changes of the engine specification: bypass on and off,
\* advanced mode on, the upward ratio to its maximum, the low gain to zero.
EngineSets == {<<19, One>>, <<19, Zero>>, <<4, One>>, <<2, One>>, <<8, Zero>>}

SetParameter == \E s \in EngineSets : SetParameterCall(s[1], s[2], MaxOps)

Next == Process \/ ProcessInvalid \/ Reset \/ SetSampleRate \/ SetParameter

Spec == Init /\ [][Next]_vars

\* The parameter specification: every index, in range and out of range, with
\* values below, inside and above [0, 1].
ParamIndices == -1..20
ParamValues ==
    {Dec(-5, -1), Zero, Dec(3, -1), Dec(5, -1), Dec(75, -2), One, Dec(15, -1)}

SetAnyParameter ==
    \E i \in ParamIndices, v \in ParamValues : SetParameterCall(i, v, MaxParamOps)

\* The host calls OTT_GetParameter(plugin, i).
GetParameter ==
    \E i \in ParamIndices :
        /\ ops < MaxParamOps
        /\ call' = [NoCall EXCEPT !.op = "get", !.index = i,
                                  !.ret = OTT_GetParameter(plugin, i)]
        /\ args' = NoArgs
        /\ outputs' = NoArgs.outputs
        /\ ops' = ops + 1
        /\ UNCHANGED <<saved, plugin, sampleRate, sets, frame>>

\* OTT_Reset between parameter calls; it is not counted, a second reset in a
\* row changes nothing.
ResetParams ==
    /\ call.op # "reset"
    /\ plugin' = OTT_Reset(plugin)
    /\ call' = [NoCall EXCEPT !.op = "reset"]
    /\ UNCHANGED <<saved, sampleRate, sets, args, outputs, ops, frame>>

NextParams == SetAnyParameter \/ GetParameter \/ ResetParams

SpecParams == Init /\ [][NextParams]_vars

\* ------------------------------------------------------------------------
\* OTT_ProcessAudio statement by statement
\* ------------------------------------------------------------------------
\* The block specification follows one OTT_ProcessAudio call through its
\* loops, one iteration per step.  It keeps the loop counters and the two
\* buffer cursors and leaves the sample values out.  The band buffers and the
\* delay buffers have DELAY_BUFFER_SIZE floats each (ott_main.c 38-44); an
\* access outside them is undefined behaviour, which the build turns into
\* either a stray access the call survives or a fault that ends the process.

\* Calls per run of the block specification.
MaxBlockOps == 2
\* Largest sampleCount of the block specification.
MaxCount == 6

\* The host calls OTT_ProcessAudio(plugin, inputs, outputs, n), both channels
\* present.
EnterCall ==
    \E n \in -1..MaxCount :
        /\ frame.pc = "idle"
        /\ ops < MaxBlockOps
        /\ frame' = [IdleFrame EXCEPT !.pc = "entry", !.sampleCount = n,
                                      !.written = frame.written]
        /\ call' = [NoCall EXCEPT !.op = "processAudio"]
        /\ ops' = ops + 1
        /\ UNCHANGED <<saved, plugin, sampleRate, sets, args, outputs>>

\* Bypass or advanced mode is switched on between two calls.
SetMode ==
    /\ frame.pc = "idle"
    /\ \E s \in {<<19, One>>, <<4, One>>} : SetParameterCall(s[1], s[2], MaxBlockOps)

\* if (plugin->bypass) ...; else the peak loop is chosen by numSamples.
EntryTest ==
    /\ frame.pc = "entry"
    /\ frame' = [frame EXCEPT
          !.pc = IF plugin.bypass THEN "bypass"
                 ELSE IF frame.sampleCount < 4
                      THEN (IF frame.sampleCount > 0 THEN "peakSingle" ELSE "main")
                      ELSE "peakQuad",
          !.sampleIdx = 0, !.ch = 0, !.iters = IdleFrame.iters,
          !.entry = [bypass |-> plugin.bypass,
                     advancedMode |-> plugin.advancedMode]]
    /\ UNCHANGED <<saved, plugin, sampleRate, sets, call, args, outputs, ops>>

\* for (ch = 0; ch < 2; ch++) for (i = 0; i < sampleCount; i++) copy; return.
BypassStep ==
    /\ frame.pc = "bypass"
    /\ frame' =
          IF frame.ch >= 2 THEN [frame EXCEPT !.pc = "done"]
          ELSE IF frame.sampleIdx < frame.sampleCount
          THEN [frame EXCEPT
                   !.sampleIdx = @ + 1,
                   !.iters.bypass0 = IF frame.ch = 0 THEN @ + 1 ELSE @,
                   !.iters.bypass1 = IF frame.ch = 1 THEN @ + 1 ELSE @]
          ELSE [frame EXCEPT !.ch = @ + 1, !.sampleIdx = 0]
    /\ UNCHANGED <<saved, plugin, sampleRate, sets, call, args, outputs, ops>>

\* do { one sample; sampleIdx++; } while (sampleIdx < numSamples);
PeakSingleStep ==
    /\ frame.pc = "peakSingle"
    /\ frame' = [frame EXCEPT
          !.sampleIdx = @ + 1,
          !.iters.peak = @ + 1,
          !.pc = IF frame.sampleIdx + 1 < frame.sampleCount
                 THEN "peakSingle" ELSE "main"]
    /\ UNCHANGED <<saved, plugin, sampleRate, sets, call, args, outputs, ops>>

\* do { four samples; sampleIdx += 4; } while (sampleIdx < numSamples - 3);
PeakQuadStep ==
    /\ frame.pc = "peakQuad"
    /\ frame' = [frame EXCEPT
          !.sampleIdx = @ + 4,
          !.iters.peak = @ + 1,
          !.pc = IF frame.sampleIdx + 4 < frame.sampleCount - 3
                 THEN "peakQuad" ELSE "peakRest"]
    /\ UNCHANGED <<saved, plugin, sampleRate, sets, call, args, outputs, ops>>

\* while (sampleIdx < numSamples) { one sample; sampleIdx++; }
PeakRestStep ==
    /\ frame.pc = "peakRest"
    /\ frame' =
          IF frame.sampleIdx < frame.sampleCount
          THEN [frame EXCEPT !.sampleIdx = @ + 1, !.iters.rest = @ + 1]
          ELSE [frame EXCEPT !.pc = "main"]
    /\ UNCHANGED <<saved, plugin, sampleRate, sets, call, args, outputs, ops>>

\* The envelopes are stored; if (sampleCount <= 0) return;
\* if (!plugin->advancedMode) simple loop else advanced loop.
MainTest ==
    /\ frame.pc = "main"
    /\ frame' = [frame EXCEPT
          !.pc = IF frame.sampleCount <= 0 THEN "done" ELSE "filter",
          !.mode = IF frame.sampleCount <= 0 THEN "none"
                   ELSE IF plugin.advancedMode THEN "advanced" ELSE "simple",
          !.sampleIdx = 0]
    /\ UNCHANGED <<saved, plugin, sampleRate, sets, call, args, outputs, ops>>


\* One iteration of the crossover loop (simple and advanced mode index the
\* buffers alike): bandBuffers[band][sampleIdx] is written, then
\* delayBuffers[band][bufferIndex], and bufferIndex advances with wrap-around.
\* A sampleIdx beyond the band buffer is an out-of-bounds write.
FilterStep ==
    /\ frame.pc = "filter"
    /\ \/ /\ frame.sampleIdx >= frame.sampleCount
          /\ frame' = [frame EXCEPT !.pc = "compressInit"]
          /\ UNCHANGED plugin
       \/ /\ frame.sampleIdx < frame.sampleCount
          /\ frame' = [frame EXCEPT
                !.sampleIdx = @ + 1,
                !.iters.filter = @ + 1,
                !.modes = @ \cup {frame.mode},
                !.writes = Append(@, plugin.bufferIndex),
                !.written = @ \cup {plugin.bufferIndex}]
          /\ plugin' = [plugin EXCEPT
                !.bufferIndex = IF @ + 1 >= DELAY_BUFFER_SIZE THEN 0 ELSE @ + 1]
       \/ /\ frame.sampleIdx < frame.sampleCount
          /\ frame.sampleIdx \notin 0..(DELAY_BUFFER_SIZE - 1)
          /\ frame' = [frame EXCEPT !.pc = "crashed"]
          /\ UNCHANGED plugin
    /\ UNCHANGED <<saved, sampleRate, sets, call, args, outputs, ops>>

\* readPos = bufferIndex - numSamples; if (readPos < 0) readPos +=
\* DELAY_BUFFER_SIZE; plugin->writeIndex = readPos;
CompressInit ==
    /\ frame.pc = "compressInit"
    /\ \E readPos \in {plugin.bufferIndex - frame.sampleCount} :
          plugin' = [plugin EXCEPT
             !.writeIndex = IF readPos < 0 THEN readPos + DELAY_BUFFER_SIZE
                            ELSE readPos]
    /\ frame' = [frame EXCEPT !.pc = "compress", !.sampleIdx = 0]
    /\ UNCHANGED <<saved, sampleRate, sets, call, args, outputs, ops>>

\* One iteration of the compressor loop: delayBuffers[band][writeIndex] is
\* read, the output sample is written, and writeIndex advances with
\* wrap-around.  A writeIndex outside the delay buffer is an out-of-bounds
\* read.
CompressStep ==
    /\ frame.pc = "compress"
    /\ \/ /\ frame.sampleIdx >= frame.sampleCount
          /\ frame' = [frame EXCEPT !.pc = "done"]
          /\ UNCHANGED plugin
       \/ /\ frame.sampleIdx < frame.sampleCount
          /\ frame' = [frame EXCEPT
                !.sampleIdx = @ + 1,
                !.iters.compress = @ + 1,
                !.reads = Append(@, plugin.writeIndex)]
          /\ plugin' = [plugin EXCEPT
                !.writeIndex = IF @ + 1 >= DELAY_BUFFER_SIZE THEN 0 ELSE @ + 1]
       \/ /\ frame.sampleIdx < frame.sampleCount
          /\ plugin.writeIndex \notin 0..(DELAY_BUFFER_SIZE - 1)
          /\ frame' = [frame EXCEPT !.pc = "crashed"]
          /\ UNCHANGED plugin
    /\ UNCHANGED <<saved, sampleRate, sets, call, args, outputs, ops>>

\* The call returns to the host.
Return ==
    /\ frame.pc = "done"
    /\ frame' = [frame EXCEPT !.pc = "idle"]
    /\ call' = [call EXCEPT !.op = "returned"]
    /\ UNCHANGED <<saved, plugin, sampleRate, sets, args, outputs, ops>>

\* The steps of a call in progress.
StepBlock ==
    \/ EntryTest
    \/ BypassStep
    \/ PeakSingleStep
    \/ PeakQuadStep
    \/ PeakRestStep
    \/ MainTest
    \/ FilterStep
    \/ CompressInit
    \/ CompressStep
    \/ Return

NextBlock ==
    \/ EnterCall
    \/ SetMode
    \/ StepBlock

\* The host thread that made the call keeps running it.
SpecBlock == Init /\ [][NextBlock]_vars /\ WF_vars(StepBlock)

\* ------------------------------------------------------------------------
\* A control thread beside the processing call
\* ------------------------------------------------------------------------
\* OTT_Reset, OTT_SetSampleRate and OTT_SetParameter take no lock and test no
\* flag, and OTT_ProcessAudio publishes none: a control thread can run any of
\* them between two statements of a call in progress.  The thread
\* specification interleaves them with the steps of the call.
NextThreads ==
    \/ EnterCall
    \/ StepBlock
    \/ Reset
    \/ SetSampleRate
    \/ SetParameter

SpecThreads == Init /\ [][NextThreads]_vars

\* ------------------------------------------------------------------------
\* Mode changes between blocks
\* ------------------------------------------------------------------------
\* The mode specification alternates stereo blocks with switches of the
\* advanced-mode parameter, so that a simple-mode block can follow
\* advanced-mode blocks on the same engine.

\* Calls per run of the mode specification.
MaxModeOps == 4

\* The host calls OTT_Process with a stereo block.
ModeBlock ==
    \E signal \in Signals, n \in 1..MaxBlock :
        /\ ops < MaxModeOps
        /\ \E r \in {OTT_Process(plugin, CallArgs(signal, n, TRUE, TRUE))} :
               /\ plugin' = r.p
               /\ outputs' = r.out
        /\ args' = CallArgs(signal, n, TRUE, TRUE)
        /\ call' = [NoCall EXCEPT !.op = "process"]
        /\ ops' = ops + 1
        /\ UNCHANGED <<saved, sampleRate, sets, frame>>

\* The host switches advanced mode on or off.
ModeSwitch == \E v \in {Zero, One} : SetParameterCall(4, v, MaxModeOps)

NextModes == ModeBlock \/ ModeSwitch

SpecModes == Init /\ [][NextModes]_vars

\* ------------------------------------------------------------------------
\* Presets
\* ------------------------------------------------------------------------
\* The preset specification: the host saves and loads presets (the first
\* two slots and the last one) and sets parameters in between.

\* Calls per run of the preset specification.
MaxPresetOps == 3

\* The host calls OTT_SavePreset(plugin, s) and remembers what each
\* parameter was.
SavePreset ==
    \E s \in {0, 1, 31} :
        /\ ops < MaxPresetOps
        /\ plugin' = OTT_SavePreset(plugin, s)
        /\ saved' = [slot |-> s,
                     values |-> [i \in 0..19 |-> OTT_GetParameter(plugin, i)]]
        /\ call' = [NoCall EXCEPT !.op = "save", !.index = s]
        /\ ops' = ops + 1
        /\ UNCHANGED <<sampleRate, sets, args, outputs, frame>>

\* The host calls OTT_LoadPreset(plugin, s).
LoadPreset ==
    \E s \in {0, 1, 31} :
        /\ ops < MaxPresetOps
        /\ plugin' = OTT_LoadPreset(plugin, s)
        /\ saved' = [slot |-> -1, values |-> <<>>]
        /\ call' = [NoCall EXCEPT !.op = "load", !.index = s]
        /\ ops' = ops + 1
        /\ UNCHANGED <<sampleRate, sets, args, outputs, frame>>

\* The host sets the depth, the upward ratio or the bypass switch.
SetPresetParameter ==
    \E s \in {<<0, Dec(3, -1)>>, <<2, One>>, <<19, One>>} :
        SetParameterCall(s[1], s[2], MaxPresetOps)

NextPresets == SavePreset \/ LoadPreset \/ SetPresetParameter

SpecPresets == Init /\ [][NextPresets]_vars

\* ------------------------------------------------------------------------
\* Properties
\* ------------------------------------------------------------------------

\* The last call was an OTT_Process call that reached OTT_ProcessAudio.
Processed == call.op = "process" /\ ~Rejected(args)

\* clamp01 of the specification.
Clamp01(v) == IF Lt(v, Zero) THEN Zero ELSE IF Gt(v, One) THEN One ELSE v

\* The indices of the boolean parameters.
BooleanIndices == {4, 19} \cup 11..16

\* C1: with bypass on, after a process call of n >= 1 samples every output
\* sample equals the input sample of the same channel and index, for each
\* channel the host gave both buffers of, whatever state the engine is in.
C1_BypassCopiesInput ==
    (Processed /\ plugin.bypass) =>
        \A ch \in 0..1 :
            (~args.inputs[ch].null /\ ~args.outputs[ch].null) =>
                \A i \in 1..args.sampleCount :
                    outputs[ch].s[i] = args.inputs[ch].s[i]

\* A bypassed stereo call on the tone has copied both channels.
C1_Witness ==
    /\ Processed /\ plugin.bypass
    /\ args.sampleCount = MaxBlock
    /\ ~args.inputs[1].null /\ ~args.outputs[1].null
    /\ outputs[0].s[1] = Dec(5, -1)
    /\ outputs[1].s[1] = Dec(-25, -2)

\* C2 as the specification states it: right after setParameter(i, v) with i
\* in 0..19, getParameter(i) is clamp01(v), the boolean indices included.
C2_RoundTripAllIndices ==
    (call.op = "set" /\ call.index \in 0..19) =>
        OTT_GetParameter(plugin, call.index) = Clamp01(call.value)

\* C2, amended: right after setParameter(i, v), getParameter(i) is clamp01(v)
\* for the continuous indices, and for the boolean indices 4, 11..16 and 19
\* it is 1.0 when clamp01(v) is not zero and 0.0 when it is.
C2_RoundTrip ==
    (call.op = "set" /\ call.index \in 0..19) =>
        OTT_GetParameter(plugin, call.index) =
            IF call.index \in BooleanIndices
            THEN (IF Clamp01(call.value) # Zero THEN One ELSE Zero)
            ELSE Clamp01(call.value)

\* Advanced Mode was set to 0.3 and reads back as 1.0.
C2_Witness ==
    /\ call.op = "set" /\ call.index = 4 /\ call.value = Dec(3, -1)
    /\ OTT_GetParameter(plugin, 4) = One

\* C3: a process call with a null plugin, inputs or outputs array, a null
\* first input or first output buffer, or sampleCount <= 0 changes nothing
\* of the engine and writes no output sample.
C3_RejectedProcessIsNoOp ==
    [][(call'.op = "process" /\ Rejected(args')) =>
            (plugin' = plugin /\ outputs' = args'.outputs)]_vars

\* A call without a first output buffer was made on an engine that had
\* processed a block before.
C3_Witness ==
    /\ call.op = "process" /\ args.outputs[0].null
    /\ plugin.depthSmoother[0] # Zero

\* C4: setParameter with an index outside 0..19 changes nothing of the
\* engine (parameters, derived values, needsUpdate, preset cells), and
\* getParameter with such an index returns a value (0.0) and changes nothing.
C4_OutOfRangeIndexIgnored ==
    [][(call'.op \in {"set", "get"} /\ call'.index \notin 0..19) =>
            (plugin' = plugin /\ (call'.op = "get" => call'.ret = Zero))]_vars

\* setParameter(20, 1.0) was called.
C4_Witness ==
    call.op = "set" /\ call.index = 20 /\ call.value = One

\* C5: reset changes no parameter value: getParameter(i) is the same after
\* it as before it, for every i in 0..19.
C5_ResetKeepsParameters ==
    [][call'.op = "reset" =>
            \A i \in 0..19 :
                OTT_GetParameter(plugin', i) = OTT_GetParameter(plugin, i)]_vars

\* The engine was reset after a parameter had been moved off its default.
C5_Witness ==
    /\ call.op = "reset"
    /\ \E i \in 0..19 : OTT_GetParameter(plugin, i) # OTT_GetParameterDefault(i)

\* The delay states and cached values of a filter are zero.
FilterCleared(f) ==
    /\ f.state1 = Zero /\ f.state2 = Zero
    /\ f.input_store = Zero /\ f.intermediate = Zero
    /\ f.output = Zero /\ f.processed_input = Zero

\* The band buffers, the alignment buffers and both cursors are zero.
BuffersCleared(p) ==
    /\ \A b \in 0..5 : \A i \in 1..DELAY_BUFFER_SIZE : p.bandBuffers[b][i] = Zero
    /\ \A b \in 0..7 : \A i \in 1..DELAY_BUFFER_SIZE : p.delayBuffers[b][i] = Zero
    /\ p.bufferIndex = 0 /\ p.writeIndex = 0

Compressors(p) == {p.compressorLow, p.compressorMid, p.compressorHigh}

\* C6 as the specification states it: after reset the filter states, the
\* compressor envelopes (RMS smoother, log envelope, gain reduction,
\* envelope output), the buffers and the cursors all read zero.
C6_ResetZeroesEverything ==
    call.op = "reset" =>
        /\ \A k \in 0..5 : FilterCleared(plugin.crossoverFilters[k])
        /\ \A c \in Compressors(plugin) :
              /\ c.rms_smoother = Zero /\ c.log_envelope = Zero
              /\ c.gain_reduction = Zero /\ c.envelope_output = Zero
        /\ BuffersCleared(plugin)

\* C6, amended: after reset the filter states, the RMS smoother, log
\* envelope and gain reduction of each compressor, the buffers and the
\* cursors read zero, and the envelope output of each compressor reads 1.0.
C6_ResetClears ==
    call.op = "reset" =>
        /\ \A k \in 0..5 : FilterCleared(plugin.crossoverFilters[k])
        /\ \A c \in Compressors(plugin) :
              /\ c.rms_smoother = Zero /\ c.log_envelope = Zero
              /\ c.gain_reduction = Zero /\ c.envelope_output = One
        /\ BuffersCleared(plugin)

\* The engine was reset after it had processed a block (reset leaves the
\* smoothers alone).
C6_Witness ==
    call.op = "reset" /\ plugin.depthSmoother[0] # Zero

RECURSIVE Replay(_, _, _)
\* The engine p after the setParameter calls k.. of the list.
Replay(p, calls, k) ==
    IF k > Len(calls) THEN p
    ELSE (CHOOSE it \in {
                         Replay(q, calls, k + 1)
           : q \in {OTT_SetParameter(p, calls[k][1], calls[k][2])}} : TRUE)

\* A freshly initialized engine with the sample rate and the parameter
\* values of this one.
Fresh == (CHOOSE it \in {
                                                     Replay(p, sets, 1)
           : p \in {OTT_Initialize(sampleRate)}} : TRUE)

\* The filter, compressor, smoother and cursor state of an engine: what
\* processing moves, without the coefficients and settings.
EngineState(p) ==
    <<[k \in 0..5 |->
          LET f == p.crossoverFilters[k]
          IN  <<f.state1, f.state2, f.input_store, f.intermediate, f.output,
                f.processed_input>>],
      [c \in {"low", "mid", "high"} |->
          LET comp == CASE c = "low" -> p.compressorLow
                        [] c = "mid" -> p.compressorMid
                        [] c = "high" -> p.compressorHigh
          IN  <<comp.rms_smoother, comp.log_envelope, comp.gain_reduction,
                comp.envelope_output, comp.processed_envelope>>],
      p.depthSmoother[0], p.upwardSmoother[0], p.outputSmoother[0],
      p.bufferIndex, p.writeIndex>>

\* C7: a block processed right after reset gives the outputs and the
\* resulting filter, compressor, smoother and cursor state that the same
\* block gives on a freshly initialized engine with the same sample rate and
\* parameter values.
C7_ResetMatchesFresh ==
    [][(call.op = "reset" /\ call'.op = "process" /\ ~Rejected(args')) =>
            \A fresh \in {OTT_Process(Fresh, args')} :
                /\ outputs' = fresh.out
                /\ EngineState(plugin') = EngineState(fresh.p)]_vars

\* C8: with bypass on, a process call changes nothing of the engine: peak
\* envelopes, smoothers, filters, compressors, buffers, cursors and metering
\* values are after the call what they were before it.
C8_BypassKeepsState ==
    [][(call'.op = "process" /\ plugin.bypass) => plugin' = plugin]_vars

\* A bypassed call on a non-silent block reached OTT_ProcessAudio.
C8_Witness ==
    /\ Processed /\ plugin.bypass
    /\ \E i \in 1..args.sampleCount : args.inputs[0].s[i] # Zero

\* The ratio mapping of the specification.
RatioMap(v) ==
    IF Le(v, Dec(5, -1)) THEN FMul(Dec(2, 0), v)
    ELSE FAdd(FMul(FSub(v, Dec(5, -1)), Dec(16, 0)), One)

\* The internal ratio that parameter 2 or 3 drives.
InternalRatio(p, i) == IF i = 2 THEN p.upwardRatio ELSE p.downwardRatio

\* C9: setParameter on index 2 or 3 stores as the internal ratio 2*v for a
\* clamped value v <= 0.5 and (v - 0.5)*16 + 1 for v > 0.5: 9.0 at 1.0, 0.0
\* at 0.0 and 1.0 at 0.5.
C9_RatioMapping ==
    (call.op = "set" /\ call.index \in {2, 3}) =>
        LET v == Clamp01(call.value)
            ratio == InternalRatio(plugin, call.index)
        IN  /\ ratio = RatioMap(v)
            /\ v = One => ratio = Dec(9, 0)
            /\ v = Zero => ratio = Zero
            /\ v = Dec(5, -1) => ratio = One

\* Upward Ratio was set to 1.0 and the internal ratio is 9.0.
C9_Witness ==
    /\ call.op = "set" /\ call.index = 2 /\ call.value = One
    /\ plugin.upwardRatio = Dec(9, 0)

\* C10: every output sample a process call writes is finite, the inputs
\* being finite, in bypass and out of it, in both modes.
C10_OutputsFinite ==
    Processed =>
        \A ch \in 0..1 :
            ~outputs[ch].null =>
                \A i \in 1..Len(outputs[ch].s) :
                    outputs[ch].s[i] = Unwritten \/ IsFinite(outputs[ch].s[i])

\* C11: in a non-bypass call with both input and both output buffers
\* present, every right-channel sample of the block is read from input
\* channel 1 (the engine keeps the sample it read in delay buffer 7) and
\* the right-channel result is written to output channel 1.
C11_SecondChannelUsed ==
    (Processed /\ ~plugin.bypass
        /\ ~args.inputs[1].null /\ ~args.outputs[1].null) =>
        \A k \in 0..(args.sampleCount - 1) :
            /\ At(plugin.delayBuffers[7], (plugin.bufferIndex - args.sampleCount + k) % DELAY_BUFFER_SIZE)
                  = At(args.inputs[1].s, k)
            /\ At(outputs[1].s, k) # Unwritten


\* C12: every call of the processing entry point returns, whatever the
\* sampleCount, the bypass switch and the mode.
C12_EveryCallReturns == (frame.pc = "entry") ~> (frame.pc = "idle")

\* C13: each band gain is stored raw and doubled, doubled = 2 * raw in every
\* reachable state, and the doubled value is the per-band gain the engine
\* uses.
C13_EngineUsesDoubledGain ==
    \A b \in 0..2 :
        /\ plugin.bandGainsDoubled[b] = FMul(plugin.bandGains[b], Dec(2, 0))
        /\ EngineBandGain(plugin, b) = plugin.bandGainsDoubled[b]

\* C14: in a completed block of n >= 1 samples the compression pass starts
\* reading at (cursor at block end - n) mod DELAY_BUFFER_SIZE and its k-th read
\* touches the position of the k-th write of the block.
C14_ReadsFollowWrites ==
    (frame.pc = "done" /\ ~plugin.bypass /\ frame.sampleCount >= 1) =>
        /\ frame.reads = frame.writes
        /\ frame.reads[1] =
              (plugin.bufferIndex - frame.sampleCount) % DELAY_BUFFER_SIZE

\* C15: every delay-buffer position the compression pass reads was written by
\* the filtering pass of this block or of an earlier one.
C15_ReadsWerePreviouslyWritten ==
    \A k \in 1..Len(frame.reads) : frame.reads[k] \in frame.written

\* C16: after every processed block, in both modes, each Stage B filter
\* (2/3) was fed the lowpass output of the Stage A filter of its channel (0/1),
\* each Stage C filter (4/5) was fed the channel input Stage A was fed, and
\* the last band samples are lowpass of B (low), highpass of B (mid) and
\* highpass of C (high), each scaled by the processing gain.
C16_CrossoverWiring ==
    (Processed /\ ~plugin.bypass) =>
        \A ch \in 0..1 :
            \A gain \in {FAdd(FMul(plugin.depthSmoother[0], COMPRESSION_SCALING), One)} :
                /\ plugin.crossoverFilters[2 + ch].input_store
                      = GetBiquadLowpass(plugin.crossoverFilters[ch])
                /\ plugin.crossoverFilters[4 + ch].input_store
                      = plugin.crossoverFilters[ch].input_store
                /\ At(plugin.bandBuffers[ch], args.sampleCount - 1)
                      = FMul(GetBiquadLowpass(plugin.crossoverFilters[2 + ch]), gain)
                /\ At(plugin.bandBuffers[2 + ch], args.sampleCount - 1)
                      = FMul(GetBiquadHighpass(plugin.crossoverFilters[2 + ch]), gain)
                /\ At(plugin.bandBuffers[4 + ch], args.sampleCount - 1)
                      = FMul(GetBiquadHighpass(plugin.crossoverFilters[4 + ch]), gain)

\* C17: reset leaves the five coefficients of every crossover filter as they
\* were; only delay states and cached values are zeroed.
C17_ResetKeepsCoefficients ==
    [][call'.op = "reset" =>
          \A i \in 0..5 :
              /\ plugin'.crossoverFilters[i].b0 = plugin.crossoverFilters[i].b0
              /\ plugin'.crossoverFilters[i].b1 = plugin.crossoverFilters[i].b1
              /\ plugin'.crossoverFilters[i].coeff_a1 = plugin.crossoverFilters[i].coeff_a1
              /\ plugin'.crossoverFilters[i].coeff_a2 = plugin.crossoverFilters[i].coeff_a2
              /\ plugin'.crossoverFilters[i].coeff_b2 = plugin.crossoverFilters[i].coeff_b2]_vars

\* C18: the output of a simple-mode block does not depend on what earlier
\* blocks left in band buffers 2 and 3: an engine that differs from this one
\* only in having those two buffers cleared gives the same output for the
\* block.
C18_SimpleModeIgnoresMidBuffers ==
    [][(call'.op = "process" /\ ~plugin.bypass /\ ~plugin.advancedMode) =>
          \A twin \in {OTT_Process(
                  [plugin EXCEPT
                      !.bandBuffers[2] = [i \in DOMAIN @ |-> Zero],
                      !.bandBuffers[3] = [i \in DOMAIN @ |-> Zero]],
                  args')} :
              outputs' = twin.out]_vars

\* C19: in advanced mode the shaping multipliers upwardGain1 and upwardGain2
\* act on the signal before the band split: for a non-zero input sample and
\* a non-zero smoothed upward amount (multipliers other than 1), the signal
\* the crossover filter of the left channel received is not the plain
\* gain-scaled input.
C19_UpwardGainsShapeSplitInput ==
    (/\ Processed /\ ~plugin.bypass /\ plugin.advancedMode
     /\ plugin.currentGain # Zero
     /\ At(args.inputs[0].s, args.sampleCount - 1) # Zero) =>
        plugin.crossoverFilters[0].input_store
            # FMul(At(args.inputs[0].s, args.sampleCount - 1), plugin.currentGain)

\* The configuration of a compressor instance: what selects its path and
\* shapes its curve.
C20_Config(comp) ==
    <<comp.ratio_state, comp.threshold, comp.attack_coeff, comp.release_coeff,
      comp.release_time, comp.upward_ratio>>

\* C20: processing never modifies ratio_state, threshold, the attack and
\* release coefficients, the release time or the upward ratio of a
\* compressor, so every sample between two configuration operations takes
\* the same path (main if ratio_state <= NEGATIVE_THRESHOLD, linear
\* otherwise), whatever the signal.
C20_PathSelectionStatic ==
    [][call'.op = "process" =>
          /\ C20_Config(plugin'.compressorLow) = C20_Config(plugin.compressorLow)
          /\ C20_Config(plugin'.compressorMid) = C20_Config(plugin.compressorMid)
          /\ C20_Config(plugin'.compressorHigh) = C20_Config(plugin.compressorHigh)
          /\ \A c \in {"compressorLow", "compressorMid", "compressorHigh"} :
                Le(plugin'[c].ratio_state, NEGATIVE_THRESHOLD)
                    = Le(plugin[c].ratio_state, NEGATIVE_THRESHOLD)]_vars

\* A block of MaxBlock non-silent samples went through the three
\* compressors and changed their running state.
C20_Witness ==
    /\ Processed /\ ~plugin.bypass
    /\ args.sampleCount = MaxBlock
    /\ At(args.inputs[0].s, 0) # Zero
    /\ plugin.compressorLow.rms_smoother # Zero
    /\ plugin.compressorLow.envelope_output # One

\* C21: after every ProcessCompressorBand call envelope_output is finite,
\* non-negative and not below the minimum-gain floor.
C21_EnvelopeOutputFloored ==
    (Processed /\ ~plugin.bypass) =>
        \A c \in {"compressorLow", "compressorMid", "compressorHigh"} :
            /\ IsFinite(plugin[c].envelope_output)
            /\ Ge(plugin[c].envelope_output, Zero)
            /\ Ge(plugin[c].envelope_output, MIN_GAIN_THRESHOLD)

\* The peak follower rule of the specification, and the plain loop that
\* applies it to samples k..n-1 of one channel in increasing order.
C22_Rule(envelope, sample) ==
    IF Ge(sample, envelope) THEN sample
    ELSE IF Lt(FSub(envelope, ENVELOPE_DECAY_RATE), Zero) THEN Zero
    ELSE FSub(envelope, ENVELOPE_DECAY_RATE)

RECURSIVE C22_PlainLoop(_, _, _, _)
C22_PlainLoop(envelope, samples, k, n) ==
    IF k >= n THEN envelope
    ELSE C22_PlainLoop(C22_Rule(envelope, At(samples, k)), samples, k + 1, n)

\* C22: the peak follower pass of a stereo block stores, for each channel,
\* the envelope a plain per-sample loop over that channel's samples 0..n-1
\* gives.
C22_PeakPassIsPlainLoop ==
    [][(/\ call'.op = "process" /\ ~Rejected(args') /\ ~plugin.bypass
        /\ ~args'.inputs[1].null) =>
          /\ plugin'.peakEnvelopeLeft =
                C22_PlainLoop(plugin.peakEnvelopeLeft, args'.inputs[0].s,
                              0, args'.sampleCount)
          /\ plugin'.peakEnvelopeRight =
                C22_PlainLoop(plugin.peakEnvelopeRight, args'.inputs[1].s,
                              0, args'.sampleCount)]_vars

\* C23: while a process call is between its first and its last sample, a
\* reset or a sample-rate change made by the control thread modifies neither
\* the crossover filters, nor the compressors, nor the band and delay
\* buffers, nor their cursors.
C23_ControlKeepsOffEngine ==
    [][(/\ frame.pc \in {"peakSingle", "peakQuad", "peakRest", "main",
                         "filter", "compressInit", "compress"}
        /\ ops' = ops + 1
        /\ call'.op \in {"reset", "setSampleRate"}) =>
          /\ plugin'.crossoverFilters = plugin.crossoverFilters
          /\ plugin'.compressorLow = plugin.compressorLow
          /\ plugin'.compressorMid = plugin.compressorMid
          /\ plugin'.compressorHigh = plugin.compressorHigh
          /\ plugin'.bandBuffers = plugin.bandBuffers
          /\ plugin'.delayBuffers = plugin.delayBuffers
          /\ plugin'.bufferIndex = plugin.bufferIndex
          /\ plugin'.writeIndex = plugin.writeIndex]_vars

\* C24: every sample of a block is filtered in the mode the flags selected
\* when the call began; a parameter change made during the call shows in
\* the next call at the earliest.
C24_ModeFixedAtCallStart ==
    /\ frame.modes \subseteq
          {IF frame.entry.advancedMode THEN "advanced" ELSE "simple"}
    /\ frame.entry.bypass => frame.modes = {}

\* C25: a filter that was initialized and never given a cutoff passes its
\* input through.  OTT_Reset leaves the six crossover filters in that
\* condition; after the block that follows, each filter's output is the
\* last sample it was fed and its delay states are still zero.
C25_UnconfiguredFilterPassesThrough ==
    [][(/\ call.op = "reset" /\ call'.op = "process"
        /\ ~Rejected(args') /\ ~plugin.bypass) =>
          \A i \in 0..5 :
              /\ plugin.crossoverFilters[i] =
                    InitializeBiquadFilter(plugin.crossoverFilters[i])
              /\ GetBiquadLowpass(plugin'.crossoverFilters[i])
                    = plugin'.crossoverFilters[i].input_store
              /\ plugin'.crossoverFilters[i].state1 = Zero
              /\ plugin'.crossoverFilters[i].state2 = Zero]_vars

\* C26: every index a process call uses on a band buffer (the sample
\* indexes 0 .. iters.filter - 1) or on a delay buffer (the positions
\* written and read) lies inside the buffer, and so do both cursors once
\* the call is over.
C26_IndexesInsideBuffers ==
    /\ \A i \in 0..(frame.iters.filter - 1) : i \in 0..(DELAY_BUFFER_SIZE - 1)
    /\ \A k \in 1..Len(frame.writes) :
          frame.writes[k] \in 0..(DELAY_BUFFER_SIZE - 1)
    /\ \A k \in 1..Len(frame.reads) :
          frame.reads[k] \in 0..(DELAY_BUFFER_SIZE - 1)
    /\ frame.pc \in {"done", "idle"} =>
          /\ plugin.bufferIndex \in 0..(DELAY_BUFFER_SIZE - 1)
          /\ plugin.writeIndex \in 0..(DELAY_BUFFER_SIZE - 1)

\* C27: in every reachable state the internal upward ratio is the piecewise
\* mapping of getParameter(2) and the internal downward ratio that of
\* getParameter(3).
C27_RatiosTrackParameters ==
    /\ plugin.upwardRatio = CalculateCompressionRatio(OTT_GetParameter(plugin, 2))
    /\ plugin.downwardRatio = CalculateCompressionRatio(OTT_GetParameter(plugin, 3))

\* C28: a process call leaves the smoothers' targets (depth, upward ratio,
\* final output gain) as they were; only the smoothers' current values
\* move.
C28_SmoothingKeepsTargets ==
    [][call'.op = "process" =>
          /\ plugin'.depth = plugin.depth
          /\ plugin'.upwardRatio = plugin.upwardRatio
          /\ plugin'.finalGain = plugin.finalGain]_vars

\* C29: a preset saved to slot s, then any parameter changes, then a load
\* of slot s: every parameter reads as it did when the preset was saved.
C29_SaveLoadRoundTrip ==
    [][(call'.op = "load" /\ saved.slot = call'.index) =>
          \A i \in 0..19 : OTT_GetParameter(plugin', i) = saved.values[i]]_vars

\* C30: loading a preset changes the stored parameter values of no slot.
C30_LoadKeepsStoredPresets ==
    [][call'.op = "load" =>
          \A t \in 0..31 : \A i \in 0..19 :
              PresetRead(plugin'.presetData, PresetCell(t, i))
                  = PresetRead(plugin.presetData, PresetCell(t, i))]_vars

============================================================================
